---- MODULE Spec2Model ----
(***************************************************************************)
(* A model of the simple-string-patterns crate: the numeric-token scanner  *)
(* (to_numeric_strings_conditional), the separator disambiguation          *)
(* (correct_numeric_string), the strict literal check (is_numeric), the    *)
(* boundary-matching rule engine (match_bounds_rule, match_bounds_rule_set,*)
(* matched_conditional), the matchers and filters over a rule list and    *)
(* their evaluation order, the rule builder (BoundsBuilder), the head/tail *)
(* splits and the enclosing of a string in a pair of characters.           *)
(*                                                                         *)
(* A Rust string is a sequence of characters; a character is a one-letter  *)
(* TLA+ string.  Every token the scanner builds is ASCII, so byte offsets  *)
(* and character offsets coincide in the strings modelled here.            *)
(***************************************************************************)
EXTENDS Integers, Sequences, FiniteSets, TLC

VARIABLES
  mode,                     \* which entry point of the library is running
  \* ---- to_numeric_strings_conditional (alphanumeric.rs 209-276)
  input,                    \* self
  enforce_comma_separator,  \* the comma-as-decimal flag
  index,                    \* number of characters consumed so far
  prev_char,
  seq_num,
  num_string,
  output,
  prev_is_separator,
  \* ---- correct_numeric_string (alphanumeric.rs 190-206)
  candidate,                \* self
  candidate_flag,           \* enforce_comma_separator
  corrected,                \* the returned string
  \* ---- match_bounds_rule_set (simple_match.rs 130-181)
  txt,                      \* the sample
  item,                     \* the StringBounds rule
  is_matched,               \* the returned boolean
  \* ---- to_first_number / is_numeric (alphanumeric.rs 23-53, 125-141)
  target,                   \* the number type T
  parsed_numbers,           \* the vector to_numbers_conditional returned
  first_number,             \* the returned Option<T>
  numeric,                  \* the boolean is_numeric returned
  stripped,                 \* the string strip_non_numeric returned
  \* ---- the matchers and filters over a rule list (simple_match.rs 175-409)
  rule_list,                \* pattern_sets: the rule list
  strs,                     \* self of a filter: the collection of strings
  matched,                  \* the vector matched_conditional returned
  filtered,                 \* the vector a filter returned
  \* ---- BoundsBuilder (bounds_builder.rs)
  string_bounds,            \* self.string_bounds of the builder
  returned,                 \* string_bounds of the builder the last call returned
  receiver,                 \* the builder the last call was made on
  snapshot,                 \* the vector as_vec returned
  evaluations,              \* evaluations of the snapshot since it was taken
  arg_patterns,             \* the patterns argument of a batch method
  arg_case_mode,            \* its case_mode argument
  arg_position,             \* its position argument
  \* ---- to_head_tail / to_start_end / to_tail (segments.rs 119-202)
  subject,                  \* self
  separator,
  pair,                     \* the returned tuple
  tail,                     \* the string to_tail returned
  \* ---- enclose_in_chars (enclose.rs 107-141)
  content,                  \* self
  start,
  end,
  prefix,                   \* Option<&str>
  escape_char,              \* Option<char>
  enclosed,                 \* the returned string
  \* ---- match_all_conditional / match_any_conditional, call by call
  \* ---- (simple_match.rs 164-181, 213-270)
  call_stack                \* the rule lists being iterated, outermost first

vars == <<mode, input, enforce_comma_separator, index, prev_char, seq_num,
          num_string, output, prev_is_separator, candidate, candidate_flag,
          corrected, txt, item, is_matched, target, parsed_numbers,
          first_number,
          numeric, stripped, rule_list, strs, matched, filtered, string_bounds,
          returned, receiver, snapshot, evaluations, arg_patterns,
          arg_case_mode,
          arg_position, subject, separator, pair, tail, content, start, end,
          prefix, escape_char, enclosed, call_stack>>

scan_vars == <<input, enforce_comma_separator, index, prev_char, seq_num,
               num_string, output, prev_is_separator>>
correct_vars == <<candidate, candidate_flag, corrected>>
match_vars == <<txt, item, is_matched>>
number_vars == <<target, parsed_numbers, first_number, numeric, stripped>>
list_vars == <<rule_list, strs, matched, filtered>>
builder_vars == <<string_bounds, returned, receiver, snapshot, evaluations,
                  arg_patterns, arg_case_mode, arg_position>>
segment_vars == <<subject, separator, pair, tail>>
enclose_vars == <<content, start, end, prefix, escape_char, enclosed>>
eval_vars == <<call_stack>>

-----------------------------------------------------------------------------
(* Bounds of the model *)

\* longest input string the scanner is run on exhaustively
MaxLen == 5
\* longest candidate correct_numeric_string is run on exhaustively
MaxCandLen == 6
\* longest sample and longest pattern a single predicate is evaluated on
MaxSampleLen == 3
MaxPatternLen == 2
\* most children of an And / Or node, and deepest nesting of such nodes
MaxChildren == 2
MaxDepth == 2

-----------------------------------------------------------------------------
(* Characters and strings *)

\* U+2024 ONE DOT LEADER, the alternate full stop of alphanumeric.rs line 240
OneDotLeader == "u2024"

Digits == {"0", "1", "2", "3", "4", "5", "6", "7", "8", "9"}

\* char::is_digit(10)
IsDigit(c) == c \in Digits

\* all strings over the alphabet S of length 0..n
StringsUpTo(S, n) == UNION {[1..k -> S] : k \in 0..n}

\* the value of a decimal digit
DigitValue(c) ==
  CASE c = "0" -> 0 [] c = "1" -> 1 [] c = "2" -> 2 [] c = "3" -> 3
    [] c = "4" -> 4 [] c = "5" -> 5 [] c = "6" -> 6 [] c = "7" -> 7
    [] c = "8" -> 8 [] c = "9" -> 9

-----------------------------------------------------------------------------
(* simple_match.rs: MatchOccurrences *)

\* find_matched_indices for a one-character pattern: the 0-based offsets of
\* every occurrence, ascending
find_matched_indices(s, pat) ==
  SelectSeq([i \in 1..Len(s) |-> i - 1], LAMBDA k : s[k + 1] = pat)

-----------------------------------------------------------------------------
(* segments.rs: ToSegments *)

\* the 0-based offsets at which the string pat occurs in s
match_offsets(s, pat) ==
  {k \in 0..(Len(s) - Len(pat)) : SubSeq(s, k + 1, k + Len(pat)) = pat}

Min(S) == CHOOSE k \in S : \A j \in S : k <= j
Max(S) == CHOOSE k \in S : \A j \in S : k >= j

\* the two sides of the occurrence of pat at offset k
split_at(s, pat, k) ==
  <<SubSeq(s, 1, k), SubSeq(s, k + Len(pat) + 1, Len(s))>>

\* str::split_once: the sides of the first occurrence, if there is one
split_once(s, pat) ==
  IF match_offsets(s, pat) = {} THEN [found |-> FALSE]
  ELSE [found |-> TRUE, sides |-> split_at(s, pat, Min(match_offsets(s, pat)))]

\* str::rsplit_once: the sides of the last occurrence, if there is one
rsplit_once(s, pat) ==
  IF match_offsets(s, pat) = {} THEN [found |-> FALSE]
  ELSE [found |-> TRUE, sides |-> split_at(s, pat, Max(match_offsets(s, pat)))]

\* str::split: the parts between the successive occurrences of pat, found
\* from the left without overlap; an empty pat is found at every character
\* boundary, the two ends included
RECURSIVE str_split(_, _)
str_split(s, pat) ==
  IF pat = <<>>
    THEN <<<<>>>> \o [i \in 1..Len(s) |-> <<s[i]>>] \o <<<<>>>>
    ELSE IF split_once(s, pat).found
      THEN <<split_once(s, pat).sides[1]>> \o
             str_split(split_once(s, pat).sides[2], pat)
      ELSE <<s>>

\* [String]::join
RECURSIVE join(_, _)
join(parts, sep) ==
  IF Len(parts) = 0 THEN <<>>
  ELSE IF Len(parts) = 1 THEN parts[1]
  ELSE parts[1] \o sep \o join(Tail(parts), sep)

\* to_parts, lines 74-77
to_parts(s, sep) == str_split(s, sep)

\* to_tail, lines 121-129
to_tail(s, sep) ==
  LET parts == to_parts(s, sep)
      num_parts == Len(parts)
  IN IF num_parts > 0
       THEN join(SubSeq(parts, 2, num_parts), sep)
       ELSE s

\* lines 185-191 with the whole string as the first part when the separator
\* is absent
to_head_tail_whole_first(s, sep) ==
  IF split_once(s, sep).found
    THEN split_once(s, sep).sides
    ELSE <<s, <<>>>>

\* to_head_tail, lines 185-191
to_head_tail(s, sep) ==
  IF split_once(s, sep).found
    THEN split_once(s, sep).sides
    ELSE <<<<>>, s>>

\* to_start_end, lines 196-202
to_start_end(s, sep) ==
  IF rsplit_once(s, sep).found
    THEN rsplit_once(s, sep).sides
    ELSE <<s, <<>>>>

-----------------------------------------------------------------------------
(* enclose.rs: SimpleEnclose *)

\* Option::Some
Some(x) == [ok |-> TRUE, value |-> x]

\* the loop of escape_in_str, lines 130-139, from the i-th character on
RECURSIVE escape_loop(_, _, _, _, _, _)
escape_loop(chars, i, end_char, esc_char, new_string, previous) ==
  IF i > Len(chars) THEN new_string
  ELSE LET ch == chars[i]
           escaped == IF /\ ch = end_char
                         /\ previous # esc_char
                         /\ Len(new_string) > 0
                        THEN Append(new_string, esc_char)
                        ELSE new_string
       IN escape_loop(chars, i + 1, end_char, esc_char,
                      Append(escaped, ch), ch)

\* escape_in_str, lines 127-141
escape_in_str(chars, end_char, esc_char) ==
  escape_loop(chars, 1, end_char, esc_char, <<>>, " ")

\* enclose_in_chars, lines 107-124
enclose_in_chars(s, start_char, end_char, pre, esc) ==
  LET out == IF esc.ok
               THEN IF \E i \in 1..Len(s) : s[i] = end_char
                      THEN escape_in_str(s, end_char, esc.value)
                      ELSE s
               ELSE s
      with_start == <<start_char>> \o out
      with_prefix == IF pre.ok
                       THEN <<with_start[1]>> \o pre.value \o Tail(with_start)
                       ELSE with_start
  IN Append(with_prefix, end_char)

-----------------------------------------------------------------------------
(* alphanumeric.rs *)

\* str::replace(pat, "") for a one-character pattern
replace_with_empty(s, pat) == SelectSeq(s, LAMBDA c : c # pat)

\* lines 34-43 without the count of decimal separators in line 40
valid_char_any_point(s, i) ==
  LET c == s[i]
      idx == i - 1
      last_index == Len(s) - 1
  IN  IF IsDigit(c) THEN TRUE
      ELSE CASE c = "-" -> idx = 0
             [] c = "." -> idx < last_index
             [] OTHER -> FALSE

\* the validity of the character at 1-based position i, lines 34-43
valid_char(s, i) ==
  LET c == s[i]
      idx == i - 1
      last_index == Len(s) - 1
      num_decimal_separators ==
        Cardinality({j \in 1..(i - 1) : s[j] = "."})
  IN  IF IsDigit(c) THEN TRUE
      ELSE CASE c = "-" -> idx = 0
             [] c = "." -> idx < last_index /\ num_decimal_separators < 1
             [] OTHER -> FALSE

is_numeric(s) ==
  LET num_chars == Len(s)
  IN  IF num_chars < 1 THEN FALSE
      ELSE Cardinality({i \in 1..num_chars : valid_char(s, i)}) = num_chars

\* line 196 without its second disjunct: the comma is decimal only when
\* forced or when several points are present
comma_is_decimal_forced_only(s, enforce) ==
  LET commas == find_matched_indices(s, ",")
      points == find_matched_indices(s, ".")
  IN  \/ Len(points) > 1
      \/ (enforce /\ Len(commas) <= 1)

\* line 196 with || for the && of its third disjunct
comma_is_decimal_or(s, enforce) ==
  LET commas == find_matched_indices(s, ",")
      last_comma_index == IF commas = <<>> THEN 0 ELSE commas[Len(commas)]
      points == find_matched_indices(s, ".")
      last_point_index == IF points = <<>> THEN 0 ELSE points[Len(points)]
      num_commas == Len(commas)
  IN  \/ Len(points) > 1
      \/ (last_comma_index > last_point_index /\ num_commas <= 1)
      \/ (enforce \/ num_commas <= 1)

\* line 196 with points.len() > 0 for points.len() > 1
comma_is_decimal_any_point(s, enforce) ==
  LET commas == find_matched_indices(s, ",")
      last_comma_index == IF commas = <<>> THEN 0 ELSE commas[Len(commas)]
      points == find_matched_indices(s, ".")
      last_point_index == IF points = <<>> THEN 0 ELSE points[Len(points)]
      num_commas == Len(commas)
  IN  \/ Len(points) > 0
      \/ (last_comma_index > last_point_index /\ num_commas <= 1)
      \/ (enforce /\ num_commas <= 1)

\* line 196 with the flag ignored
comma_is_decimal_unforced(s, enforce) ==
  LET commas == find_matched_indices(s, ",")
      last_comma_index == IF commas = <<>> THEN 0 ELSE commas[Len(commas)]
      points == find_matched_indices(s, ".")
      last_point_index == IF points = <<>> THEN 0 ELSE points[Len(points)]
      num_commas == Len(commas)
  IN  \/ Len(points) > 1
      \/ (last_comma_index > last_point_index /\ num_commas <= 1)

\* line 196 with a missing comma or point placed before the first character
comma_is_decimal_from_start(s, enforce) ==
  LET commas == find_matched_indices(s, ",")
      last_comma_index == IF commas = <<>> THEN -1 ELSE commas[Len(commas)]
      points == find_matched_indices(s, ".")
      last_point_index == IF points = <<>> THEN -1 ELSE points[Len(points)]
      num_commas == Len(commas)
  IN  \/ Len(points) > 1
      \/ (last_comma_index > last_point_index /\ num_commas <= 1)
      \/ (enforce /\ num_commas <= 1)

\* the branch condition of line 196
comma_is_decimal(s, enforce) ==
  LET commas == find_matched_indices(s, ",")
      last_comma_index == IF commas = <<>> THEN 0 ELSE commas[Len(commas)]
      points == find_matched_indices(s, ".")
      last_point_index == IF points = <<>> THEN 0 ELSE points[Len(points)]
      num_commas == Len(commas)
  IN  \/ Len(points) > 1
      \/ (last_comma_index > last_point_index /\ num_commas <= 1)
      \/ (enforce /\ num_commas <= 1)

\* lines 190-206 with line 204 stripping the points as well as the commas
correct_numeric_string_strip_all(s, enforce) ==
  LET num_commas == Len(find_matched_indices(s, ","))
  IN  IF comma_is_decimal(s, enforce)
        THEN IF num_commas < 1
               THEN replace_with_empty(s, ".")
               ELSE LET parts == to_start_end(s, <<",">>)
                    IN  replace_with_empty(parts[1], ".") \o <<".">> \o parts[2]
        ELSE replace_with_empty(replace_with_empty(s, ","), ".")

\* lines 190-206 with line 201 returning the main part alone
correct_numeric_string_main_only(s, enforce) ==
  LET num_commas == Len(find_matched_indices(s, ","))
  IN  IF comma_is_decimal(s, enforce)
        THEN IF num_commas < 1
               THEN replace_with_empty(s, ".")
               ELSE replace_with_empty(to_start_end(s, <<",">>)[1], ".")
        ELSE replace_with_empty(s, ",")

\* lines 190-206 with line 201 keeping the points of the main part
correct_numeric_string_keep_points(s, enforce) ==
  LET num_commas == Len(find_matched_indices(s, ","))
  IN  IF comma_is_decimal(s, enforce)
        THEN IF num_commas < 1
               THEN replace_with_empty(s, ".")
               ELSE LET parts == to_start_end(s, <<",">>)
                    IN  parts[1] \o <<".">> \o parts[2]
        ELSE replace_with_empty(s, ",")

\* lines 190-206
correct_numeric_string(s, enforce) ==
  LET num_commas == Len(find_matched_indices(s, ","))
  IN  IF comma_is_decimal(s, enforce)
        THEN IF num_commas < 1
               THEN replace_with_empty(s, ".")
               ELSE LET parts == to_start_end(s, <<",">>)
                    IN  replace_with_empty(parts[1], ".") \o <<".">> \o parts[2]
        ELSE replace_with_empty(s, ",")

-----------------------------------------------------------------------------
(* utils.rs *)

RECURSIVE trim_end_matches(_, _)
trim_end_matches(s, pat) ==
  IF s # <<>> /\ s[Len(s)] = pat
    THEN trim_end_matches(SubSeq(s, 1, Len(s) - 1), pat)
    ELSE s

add_sanitized_numeric_string(out, s) ==
  Append(out, trim_end_matches(trim_end_matches(s, "."), ","))

-----------------------------------------------------------------------------
(* str::parse::<T>() as to_numbers_conditional uses it (alphanumeric.rs     *)
(* 279-284), for strings over the digits, '.', ',', '-' and '+'.  A parsed  *)
(* number is its exact decimal value in canonical form: the sign, the       *)
(* integer digits without leading zeros and the fraction digits without     *)
(* trailing zeros.  Short literals round to the same float exactly when     *)
(* these values agree.                                                      *)

RECURSIVE strip_leading_zeros(_)
strip_leading_zeros(s) ==
  IF s # <<>> /\ s[1] = "0" THEN strip_leading_zeros(Tail(s)) ELSE s

RECURSIVE strip_trailing_zeros(_)
strip_trailing_zeros(s) ==
  IF s # <<>> /\ s[Len(s)] = "0"
    THEN strip_trailing_zeros(SubSeq(s, 1, Len(s) - 1))
    ELSE s

\* a <= b for digit strings of equal length
RECURSIVE digits_le(_, _)
digits_le(a, b) ==
  IF a = <<>> THEN TRUE
  ELSE IF DigitValue(a[1]) < DigitValue(b[1]) THEN TRUE
  ELSE IF DigitValue(a[1]) > DigitValue(b[1]) THEN FALSE
  ELSE digits_le(Tail(a), Tail(b))

NoValue == [ok |-> FALSE]

Number(neg, int, frac) ==
  [ok |-> TRUE,
   neg |-> neg /\ (int # <<>> \/ frac # <<>>),
   int |-> int,
   frac |-> frac]

\* f32::from_str / f64::from_str: an optional sign, digits with at most one
\* '.', at least one digit
parse_float(s) ==
  LET signed == s # <<>> /\ s[1] \in {"-", "+"}
      body == IF signed THEN Tail(s) ELSE s
      points == find_matched_indices(body, ".")
      split == IF points = <<>> THEN Len(body) ELSE points[1]
  IN  IF /\ \A i \in 1..Len(body) : IsDigit(body[i]) \/ body[i] = "."
         /\ Len(points) <= 1
         /\ \E i \in 1..Len(body) : IsDigit(body[i])
        THEN Number(signed /\ s[1] = "-",
                    strip_leading_zeros(SubSeq(body, 1, split)),
                    strip_trailing_zeros(SubSeq(body, split + 2, Len(body))))
        ELSE NoValue

\* u32::MAX, 4294967295
U32MaxDigits == <<"4", "2", "9", "4", "9", "6", "7", "2", "9", "5">>

\* u32::from_str: an optional '+', then digits only, no overflow
parse_u32(s) ==
  LET body == IF s # <<>> /\ s[1] = "+" THEN Tail(s) ELSE s
      value == strip_leading_zeros(body)
  IN  IF /\ body # <<>>
         /\ \A i \in 1..Len(body) : IsDigit(body[i])
         /\ \/ Len(value) < Len(U32MaxDigits)
            \/ Len(value) = Len(U32MaxDigits) /\ digits_le(value, U32MaxDigits)
        THEN Number(FALSE, value, <<>>)
        ELSE NoValue

\* s.parse::<T>() for the target types T the tests use
parse(s, T) ==
  CASE T = "f32" -> parse_float(s)
    [] T = "u32" -> parse_u32(s)

\* to_numbers_conditional::<T>, lines 280-283, over the strings the scan
\* returned
to_numbers_conditional(strings, T) ==
  SelectSeq([i \in 1..Len(strings) |-> parse(strings[i], T)], LAMBDA v : v.ok)

\* lines 125-131 with the parse of the first token in place of the first
\* parsed number
to_first_number_of_first(strings, T) ==
  IF strings # <<>> THEN parse(strings[1], T) ELSE NoValue

\* to_first_number::<T> / to_first_number_euro::<T>, lines 125-141
to_first_number(strings, T) ==
  LET numbers == to_numbers_conditional(strings, T)
  IN  IF numbers # <<>> THEN numbers[1] ELSE NoValue

-----------------------------------------------------------------------------
(* alphanumeric.rs: to_numeric_strings_conditional, one loop iteration *)

\* line 214 without the subtraction: no character is the last one
last_index_of_count(s) == Len(s)

\* line 214: chars().count().checked_sub(1).unwrap_or(0)
last_index_of(s) == IF Len(s) = 0 THEN 0 ELSE Len(s) - 1

\* lines 222-230 left out: a trailing separator is never stripped
strips_separator_never(component) == FALSE

\* lines 222-230: the buffer ends in a separator and no digit follows
strips_separator(component) ==
  prev_is_separator /\ ~IsDigit(component) /\ Len(num_string) > 1

\* lines 232-234 left out: the sign is never taken
push_sign_never(buffer) == buffer

\* lines 232-234: a digit that follows '-' takes the sign with it
push_sign(buffer) ==
  IF prev_char = "-" THEN Append(buffer, prev_char) ELSE buffer

\* lines 218-262: the values of num_string, seq_num, prev_is_separator and
\* is_end when line 263 is reached for the character `component`
scan_component(component) ==
  LET last_index == last_index_of(input)
      is_digit == IsDigit(component)
      strip == strips_separator(component)
      ns1 == IF strip THEN SubSeq(num_string, 1, Len(num_string) - 1)
                      ELSE num_string
      end1 == (index = last_index) \/ strip
      sn1 == IF strip THEN Len(ns1) ELSE seq_num
  IN  IF is_digit
        THEN [num_string |-> Append(push_sign(ns1), component),
              seq_num |-> sn1 + 1,
              prev_is_separator |-> FALSE,
              is_end |-> end1]
      ELSE IF IsDigit(prev_char)
        THEN IF component \in {".", OneDotLeader, ","}
               THEN IF index = last_index
                      THEN [num_string |-> ns1, seq_num |-> sn1,
                            prev_is_separator |-> TRUE, is_end |-> TRUE]
                      ELSE [num_string |->
                              Append(ns1, IF component = "," THEN "," ELSE "."),
                            seq_num |-> 0,
                            prev_is_separator |-> TRUE, is_end |-> end1]
               ELSE [num_string |-> ns1, seq_num |-> sn1,
                     prev_is_separator |-> prev_is_separator, is_end |-> TRUE]
      ELSE [num_string |-> ns1, seq_num |-> sn1,
            prev_is_separator |-> FALSE, is_end |-> TRUE]

\* lines 263-264: the buffered token is pushed
is_flushed(r) == r.is_end /\ r.seq_num > 0

\* one iteration of the loop of lines 217-274
ScanChar ==
  /\ mode = "scan"
  /\ index < Len(input)
  /\ LET component == input[index + 1]
         r == scan_component(component)
     IN  /\ IF is_flushed(r)
              THEN /\ output' = add_sanitized_numeric_string(output,
                          correct_numeric_string(r.num_string,
                                                 enforce_comma_separator))
                   /\ num_string' = <<>>
                   /\ seq_num' = 0
              ELSE /\ output' = output
                   /\ num_string' = r.num_string
                   /\ seq_num' = r.seq_num
         /\ prev_is_separator' = r.prev_is_separator
         /\ prev_char' = component
         /\ index' = index + 1
  /\ UNCHANGED <<mode, input, enforce_comma_separator>>
  /\ UNCHANGED <<correct_vars, match_vars, number_vars>>
  /\ UNCHANGED <<list_vars, builder_vars, segment_vars, enclose_vars, eval_vars>>

\* the loop has ended and `output` is returned (line 275)
ScanReturned == mode = "scan" /\ index = Len(input)

\* the number types T of to_numbers_conditional::<T>
NumberTypes == {"f32", "u32"}

\* to_first_number::<T> (lines 125-131) and, with the comma flag on,
\* to_first_number_euro::<T> (135-141), once the scan has returned:
\* to_numbers_conditional::<T> of line 126 parses the tokens (280-283) and
\* the first number, if any, is returned
ToFirstNumber ==
  /\ ScanReturned
  /\ \E T \in NumberTypes :
       /\ target' = T
       /\ parsed_numbers' = to_numbers_conditional(output, T)
       /\ first_number' = to_first_number(output, T)
  /\ mode' = "first_number"
  /\ UNCHANGED <<numeric, stripped>>
  /\ UNCHANGED <<scan_vars, correct_vars, match_vars>>
  /\ UNCHANGED <<list_vars, builder_vars, segment_vars, enclose_vars, eval_vars>>

\* strip_non_digits, lines 163-165
strip_non_digits(s) == SelectSeq(s, IsDigit)

\* strip_non_numeric, lines 145-147, over the strings the scan returned
strip_non_numeric(strings) == join(strings, <<" ">>)

\* self.strip_non_numeric(), once the scan of to_numeric_strings (flag off)
\* has returned
StripNonNumeric ==
  /\ ScanReturned
  /\ ~enforce_comma_separator
  /\ stripped' = strip_non_numeric(output)
  /\ mode' = "strip_non_numeric"
  /\ UNCHANGED <<target, parsed_numbers, first_number, numeric>>
  /\ UNCHANGED <<scan_vars, correct_vars, match_vars>>
  /\ UNCHANGED <<list_vars, builder_vars, segment_vars, enclose_vars, eval_vars>>

-----------------------------------------------------------------------------
(* enums.rs: StringBounds.  A predicate is a record of its variant (kind),  *)
(* pattern, positivity flag and case mode; And and Or hold a list of rules. *)

Positions == {"StartsWith", "EndsWith", "Contains", "Whole"}
CaseMatchModes == {"Sensitive", "Insensitive", "AlphanumInsensitive"}

Bounds(kind, pat, is_pos, cm) ==
  [kind |-> kind, pattern |-> pat, positive |-> is_pos, case_mode |-> cm]
And(inner_rules) == [kind |-> "And", rules |-> inner_rules]
Or(inner_rules) == [kind |-> "Or", rules |-> inner_rules]

case_insensitive(b) ==
  IF b.kind \in Positions THEN b.case_mode # "Sensitive" ELSE FALSE

case_mode(b) == IF b.kind \in Positions THEN b.case_mode ELSE "Sensitive"

pattern(b) == IF b.kind \in Positions THEN b.pattern ELSE <<>>

is_positive(b) == IF b.kind \in Positions THEN b.positive ELSE FALSE

starts_with(b) == b.kind = "StartsWith"

ends_with(b) == b.kind = "EndsWith"

matches_whole(b) == b.kind = "Whole"

-----------------------------------------------------------------------------
(* The string functions of the standard library that the matcher calls, for *)
(* ASCII text *)

UpperLetters ==
  <<"A", "B", "C", "D", "E", "F", "G", "H", "I", "J", "K", "L", "M",
    "N", "O", "P", "Q", "R", "S", "T", "U", "V", "W", "X", "Y", "Z">>
LowerLetters ==
  <<"a", "b", "c", "d", "e", "f", "g", "h", "i", "j", "k", "l", "m",
    "n", "o", "p", "q", "r", "s", "t", "u", "v", "w", "x", "y", "z">>

char_to_lowercase(c) ==
  IF \E i \in 1..Len(UpperLetters) : UpperLetters[i] = c
    THEN LowerLetters[CHOOSE i \in 1..Len(UpperLetters) : UpperLetters[i] = c]
    ELSE c

\* str::to_lowercase
to_lowercase(s) == [i \in 1..Len(s) |-> char_to_lowercase(s[i])]

\* char::is_alphanumeric
is_alphanumeric(c) ==
  \/ c \in Digits
  \/ \E i \in 1..Len(UpperLetters) : c = UpperLetters[i] \/ c = LowerLetters[i]

\* strip_non_alphanum, alphanumeric.rs lines 156-158
strip_non_alphanum(s) == SelectSeq(s, is_alphanumeric)

\* str::starts_with, str::ends_with, str::contains
str_starts_with(s, pat) ==
  Len(pat) <= Len(s) /\ SubSeq(s, 1, Len(pat)) = pat

str_ends_with(s, pat) ==
  Len(pat) <= Len(s) /\ SubSeq(s, Len(s) - Len(pat) + 1, Len(s)) = pat

str_contains(s, pat) ==
  \E k \in 0..(Len(s) - Len(pat)) : SubSeq(s, k + 1, k + Len(pat)) = pat

\* Iterator::all and Iterator::any over a vector of booleans
RECURSIVE iter_all(_)
iter_all(results) ==
  IF results = <<>> THEN TRUE
  ELSE IF ~results[1] THEN FALSE
  ELSE iter_all(Tail(results))

RECURSIVE iter_any(_)
iter_any(results) ==
  IF results = <<>> THEN FALSE
  ELSE IF results[1] THEN TRUE
  ELSE iter_any(Tail(results))

-----------------------------------------------------------------------------
(* simple_match.rs: match_bounds_rule, match_bounds_rule_set,               *)
(* matched_conditional *)

\* lines 134-141: the sample as it is compared
rule_base(t, b) ==
  IF case_insensitive(b)
    THEN IF case_mode(b) = "AlphanumInsensitive"
           THEN strip_non_alphanum(to_lowercase(t))
           ELSE to_lowercase(t)
    ELSE t

\* lines 143-147 with the pattern stripped as the sample is
rule_pattern_stripped(b) ==
  IF case_insensitive(b)
    THEN IF case_mode(b) = "AlphanumInsensitive"
           THEN strip_non_alphanum(to_lowercase(pattern(b)))
           ELSE to_lowercase(pattern(b))
    ELSE pattern(b)

\* lines 143-147: the pattern as it is compared
rule_pattern(b) ==
  IF case_insensitive(b) THEN to_lowercase(pattern(b)) ELSE pattern(b)

\* lines 149-157: the positional test
rule_test(base, pat, b) ==
  IF starts_with(b) THEN str_starts_with(base, pat)
  ELSE IF ends_with(b) THEN str_ends_with(base, pat)
  ELSE IF matches_whole(b) THEN base = pat
  ELSE str_contains(base, pat)

\* lines 130-159 with && for the == of line 157
match_bounds_rule_and(t, b) ==
  rule_test(rule_base(t, b), rule_pattern(b), b) /\ is_positive(b)

\* lines 130-159
match_bounds_rule(t, b) ==
  rule_test(rule_base(t, b), rule_pattern(b), b) = is_positive(b)

RECURSIVE match_bounds_rule_set(_, _)

\* lines 175-181
matched_conditional(t, pattern_sets) ==
  [i \in 1..Len(pattern_sets) |-> match_bounds_rule_set(t, pattern_sets[i])]

\* lines 164-170 with any() in the And arm
match_bounds_rule_set_any(t, b) ==
  CASE b.kind = "And" -> iter_any(matched_conditional(t, b.rules))
    [] b.kind = "Or" -> iter_any(matched_conditional(t, b.rules))
    [] OTHER -> match_bounds_rule(t, b)

\* lines 164-170
match_bounds_rule_set(t, b) ==
  CASE b.kind = "And" -> iter_all(matched_conditional(t, b.rules))
    [] b.kind = "Or" -> iter_any(matched_conditional(t, b.rules))
    [] OTHER -> match_bounds_rule(t, b)

-----------------------------------------------------------------------------
(* simple_match.rs: SimpleMatchAll, SimpleMatchAny, SimpleFilterAll,        *)
(* SimpleFilterAny *)

\* the loop of lines 216-223: false at the first rule that is not matched
RECURSIVE all_rules_matched(_, _)
all_rules_matched(t, pattern_sets) ==
  IF pattern_sets = <<>> THEN TRUE
  ELSE IF ~match_bounds_rule_set(t, pattern_sets[1]) THEN FALSE
  ELSE all_rules_matched(t, Tail(pattern_sets))

\* line 214, the earlier body that the source keeps as a comment
match_all_conditional_vacuous(t, pattern_sets) ==
  iter_all(matched_conditional(t, pattern_sets))

\* lines 213-228
match_all_conditional(t, pattern_sets) ==
  IF Len(pattern_sets) > 0
    THEN all_rules_matched(t, pattern_sets)
    ELSE FALSE

\* the loop of lines 262-267: true at the first rule that is matched
RECURSIVE any_rule_matched(_, _)
any_rule_matched(t, pattern_sets) ==
  IF pattern_sets = <<>> THEN FALSE
  ELSE IF match_bounds_rule_set(t, pattern_sets[1]) THEN TRUE
  ELSE any_rule_matched(t, Tail(pattern_sets))

\* lines 261-270 with the loop of match_all_conditional
match_any_conditional_all(t, pattern_sets) ==
  all_rules_matched(t, pattern_sets)

\* lines 261-270
match_any_conditional(t, pattern_sets) ==
  any_rule_matched(t, pattern_sets)

\* <[T]>::to_owned of each element, lines 366 and 375: a copy of the element
to_owned(s) == [i \in 1..Len(s) |-> s[i]]

map_to_owned(collection) ==
  [i \in 1..Len(collection) |-> to_owned(collection[i])]

\* lines 365-367, [&str]: map to_owned, then filter
filter_all_conditional(collection, pattern_sets) ==
  SelectSeq(map_to_owned(collection),
            LAMBDA s : match_all_conditional(s, pattern_sets))

\* lines 374-376, [String]: filter, then map to_owned
filter_all_conditional_string(collection, pattern_sets) ==
  map_to_owned(SelectSeq(collection,
                         LAMBDA s : match_all_conditional(s, pattern_sets)))

\* lines 396-398, [&str]
filter_any_conditional(collection, pattern_sets) ==
  SelectSeq(map_to_owned(collection),
            LAMBDA s : match_any_conditional(s, pattern_sets))

\* lines 405-407 with match_all_conditional as the test
filter_any_conditional_string_all(collection, pattern_sets) ==
  filter_all_conditional_string(collection, pattern_sets)

\* lines 405-407, [String]
filter_any_conditional_string(collection, pattern_sets) ==
  map_to_owned(SelectSeq(collection,
                         LAMBDA s : match_any_conditional(s, pattern_sets)))

-----------------------------------------------------------------------------
(* enums.rs, utils.rs: the constructors of rules *)

BoundsPositions == {"Starts", "Ends", "Contains", "Whole"}

\* CaseMatchMode::insensitive, enums.rs 107-113
insensitive(flag) == IF flag THEN "Insensitive" ELSE "Sensitive"

\* StringBounds::new, enums.rs 16-23
StringBoundsNew(position, t, is_pos, cm) ==
  CASE position = "Starts" -> Bounds("StartsWith", t, is_pos, cm)
    [] position = "Ends" -> Bounds("EndsWith", t, is_pos, cm)
    [] position = "Whole" -> Bounds("Whole", t, is_pos, cm)
    [] OTHER -> Bounds("Contains", t, is_pos, cm)

\* utils.rs 14-16
strs_to_string_bounds(strings, cm, position) ==
  [i \in 1..Len(strings) |-> StringBoundsNew(position, strings[i], TRUE, cm)]

\* utils.rs 21-23
strs_to_negative_string_bounds(strings, cm, position) ==
  [i \in 1..Len(strings) |-> StringBoundsNew(position, strings[i], FALSE, cm)]

-----------------------------------------------------------------------------
(* bounds_builder.rs: BoundsBuilder.  A method is modelled by the list that *)
(* self.string_bounds holds when it returns; the builder it returns is a    *)
(* clone of self (self.to_owned()). *)

\* Vec::push
push(list, node) == Append(list, node)

\* Vec::clone of as_vec, lines 17-19
as_vec(list) == [i \in 1..Len(list) |-> list[i]]

\* lines 22-25
builder_starts_with(list, pat, is_pos, ci) ==
  push(list, Bounds("StartsWith", pat, is_pos, insensitive(ci)))

\* lines 33-36
starts_with_ci_alphanum(list, pat, is_pos) ==
  push(list, Bounds("StartsWith", pat, is_pos, "AlphanumInsensitive"))

\* lines 83-91
contains(list, pat, is_pos, ci) ==
  push(list, Bounds("Contains", pat, is_pos,
                    IF ci THEN "Insensitive" ELSE "Sensitive"))

\* lines 94-97
contains_ci_alphanum(list, pat, is_pos) ==
  push(list, Bounds("Contains", pat, is_pos, "AlphanumInsensitive"))

\* lines 150-158
builder_ends_with(list, pat, is_pos, ci) ==
  push(list, Bounds("EndsWith", pat, is_pos,
                    IF ci THEN "Insensitive" ELSE "Sensitive"))

\* lines 166-169
ends_with_ci_alphanum(list, pat, is_pos) ==
  push(list, Bounds("EndsWith", pat, is_pos, "AlphanumInsensitive"))

\* lines 217-225
builder_matches_whole(list, pat, is_pos, ci) ==
  push(list, Bounds("Whole", pat, is_pos,
                    IF ci THEN "Insensitive" ELSE "Sensitive"))

\* lines 258-261: rules is the list of the builder passed in
and(list, rules) == push(list, And(as_vec(rules)))

\* lines 263-266
or(list, rules) == push(list, Or(as_vec(rules)))

\* lines 268-272
or_true(list, pats, cm, position) ==
  push(list, Or(strs_to_string_bounds(pats, cm, position)))

\* lines 274-277 with or_true called a second time in place of to_owned
or_starts_with_twice(list, pats, cm) ==
  or_true(or_true(list, pats, cm, "Starts"), pats, cm, "Starts")

\* lines 274-277; or_starting_with_ci, _cs and _ci_alphanum (279-292) pass
\* their case mode to it
or_starts_with(list, pats, cm) == or_true(list, pats, cm, "Starts")

\* lines 294-297 (and 299-312)
or_contains(list, pats, cm) == or_true(list, pats, cm, "Contains")

\* lines 314-317 (and 319-332)
or_ends_with(list, pats, cm) == or_true(list, pats, cm, "Ends")

\* lines 334-337 (and 339-352)
or_is(list, pats, cm) == or_true(list, pats, cm, "Whole")

\* lines 354-358
and_true(list, pats, cm, position) ==
  push(list, Or(strs_to_string_bounds(pats, cm, position)))

\* lines 360-364 with an And node pushed in place of the Or node
and_false_and(list, pats, cm, position) ==
  push(list, And(strs_to_negative_string_bounds(pats, cm, position)))

\* lines 360-364
and_false(list, pats, cm, position) ==
  push(list, Or(strs_to_negative_string_bounds(pats, cm, position)))

\* lines 366-369 (and 376-404)
and_starts_with(list, pats, cm) == and_true(list, pats, cm, "Starts")

\* lines 371-374 (and 381-404)
and_not_starts_with(list, pats, cm) == and_false(list, pats, cm, "Starts")

\* lines 406-409 (and 416-444)
and_contains(list, pats, cm) == and_true(list, pats, cm, "Contains")

\* lines 411-414 (and 421-444)
and_not_contains(list, pats, cm) == and_false(list, pats, cm, "Contains")

\* lines 446-449 (and 456-484)
and_ends_with(list, pats, cm) == and_true(list, pats, cm, "Ends")

\* lines 451-454 (and 461-484)
and_not_ends_with(list, pats, cm) == and_false(list, pats, cm, "Ends")

\* lines 486-489 (and 496-524)
and_is(list, pats, cm) == and_true(list, pats, cm, "Whole")

\* lines 491-494 (and 501-524)
and_is_not(list, pats, cm) == and_false(list, pats, cm, "Whole")

-----------------------------------------------------------------------------
(* Inputs *)

\* the characters of exhaustively enumerated scanner inputs: two digits, the
\* three separators, the sign and one other character
ScanChars == {"1", "2", ".", ",", OneDotLeader, "-", "x"}

\* inputs taken from tests/integration_tests.rs, shortened to the words
\* around their numbers (lines 284, 296, 301, 306, 323)
InputSpent ==
  <<"s", "p", "e", "n", "t", " ", "L", "9", "9", "9", "9", ".", "9", "9",
    " ", "o", "n", " ", "2", " ", "b", "i", "k", "e", "s", " ", "a", "g",
    "e", " ", "7", "2", ".">>
InputFlour ==
  <<"l", "i", "k", "e", " ", "2", ".", "5", "l", "b", " ", "o", "f">>
InputConto ==
  <<"d", "e", "l", " ", "1", ".", "9", "9", "9", ",", "5", "0", "E", ".",
    " ", "C">>
InputFurgone ==
  <<"p", "e", "s", "a", " ", "1", ".", "5", "0", "0", "k", "g">>
InputSale ==
  <<"1", "2", ",", "5", "0", "E", " ", "p", "e", "r", " ", "1", ".", "5",
    "0", "0", " ", "g">>

\* a subtraction
InputMinus == <<"5", "-", "3">>

TestInputs ==
  {InputSpent, InputFlour, InputConto, InputFurgone, InputSale, InputMinus}

\* the characters of exhaustively enumerated candidates
CandChars == {"1", "5", ".", ",", "-"}

\* candidates taken from tests/integration_tests.rs (lines 238-247, 301)
TestCandidates ==
  { <<"-", "1", "2", "2", "7", ".", "7", "5">>,
    <<"-", "1", ",", "2", "2", "7", ".", "7", "5">>,
    <<"-", "1", ".", "2", "2", "7", ",", "7", "5">>,
    <<"1", ".", "9", "9", "9", ",", "5", "0">>,
    <<"1", ",", "0", "0", "0", ",", "0", "0", "0", ".", "5", "0">>,
    <<"1", ".", "0", "0", "0", ".", "0", "0", "0", ",", "5", "0">>,
    <<"1", ".", "5", "0", "0">>,
    <<"2", ".", "5">>,
    <<"1", ",", "5", "0", "0">>,
    <<"1", ",", "0", "0", "0", ",", "0", "0", "0">> }

-----------------------------------------------------------------------------
(* The scanner as a state machine *)

IdleScan ==
  /\ input = <<>> /\ enforce_comma_separator = FALSE /\ index = 0
  /\ prev_char = " " /\ seq_num = 0 /\ num_string = <<>> /\ output = <<>>
  /\ prev_is_separator = FALSE

IdleCorrect ==
  candidate = <<>> /\ candidate_flag = FALSE /\ corrected = <<>>

IdleMatch == txt = <<>> /\ item = And(<<>>) /\ is_matched = FALSE

IdleNumber ==
  /\ target = "f32" /\ parsed_numbers = <<>> /\ first_number = NoValue
  /\ numeric = FALSE /\ stripped = <<>>

IdleList ==
  rule_list = <<>> /\ strs = <<>> /\ matched = <<>> /\ filtered = <<>>

IdleBuilder ==
  /\ string_bounds = <<>> /\ returned = <<>> /\ receiver = "none"
  /\ snapshot = <<>>
  /\ evaluations = 0 /\ arg_patterns = <<>> /\ arg_case_mode = "Sensitive"
  /\ arg_position = "Starts"

IdleSegment ==
  subject = <<>> /\ separator = <<>> /\ pair = <<<<>>, <<>>>> /\ tail = <<>>

IdleEnclose ==
  /\ content = <<>> /\ start = "(" /\ end = ")" /\ prefix = NoValue
  /\ escape_char = NoValue /\ enclosed = <<>>

IdleEval == call_stack = <<>>

\* the variables of the entry points that are not running
IdleOthers ==
  IdleNumber /\ IdleList /\ IdleBuilder /\ IdleSegment /\ IdleEnclose /\ IdleEval

\* lines 210-216
InitScan ==
  /\ mode = "scan"
  /\ input \in StringsUpTo(ScanChars, MaxLen) \cup TestInputs
  /\ enforce_comma_separator \in BOOLEAN
  /\ index = 0
  /\ prev_char = " "
  /\ seq_num = 0
  /\ num_string = <<>>
  /\ output = <<>>
  /\ prev_is_separator = FALSE
  /\ IdleCorrect
  /\ IdleMatch
  /\ IdleOthers

-----------------------------------------------------------------------------
(* correct_numeric_string as a state machine *)

InitCorrect ==
  /\ mode = "correct"
  /\ candidate \in StringsUpTo(CandChars, MaxCandLen) \cup TestCandidates
  /\ candidate_flag \in BOOLEAN
  /\ corrected = <<>>
  /\ IdleScan
  /\ IdleMatch
  /\ IdleOthers

Correct ==
  /\ mode = "correct"
  /\ corrected' = correct_numeric_string(candidate, candidate_flag)
  /\ mode' = "corrected"
  /\ UNCHANGED <<candidate, candidate_flag>>
  /\ UNCHANGED <<scan_vars, match_vars, number_vars>>
  /\ UNCHANGED <<list_vars, builder_vars, segment_vars, enclose_vars, eval_vars>>

-----------------------------------------------------------------------------
(* is_numeric as a state machine *)

MaxNumericLen == 5

\* a digit, the characters is_numeric accepts in some places, and a comma
\* and a space
NumericChars == {"1", ".", "-", ",", " "}

InitIsNumeric ==
  /\ mode = "is_numeric"
  /\ candidate \in StringsUpTo(NumericChars, MaxNumericLen)
  /\ candidate_flag = FALSE
  /\ corrected = <<>>
  /\ IdleScan
  /\ IdleMatch
  /\ IdleOthers

IsNumeric ==
  /\ mode = "is_numeric"
  /\ numeric' = is_numeric(candidate)
  /\ mode' = "checked"
  /\ UNCHANGED <<target, parsed_numbers, first_number, stripped>>
  /\ UNCHANGED <<scan_vars, correct_vars, match_vars>>
  /\ UNCHANGED <<list_vars, builder_vars, segment_vars, enclose_vars, eval_vars>>

-----------------------------------------------------------------------------
(* The numeric path: the scanner, the disambiguation and the strict check *)

InitNum == InitScan \/ InitCorrect \/ InitIsNumeric

NextNum ==
  ScanChar \/ ToFirstNumber \/ StripNonNumeric \/ Correct \/ IsNumeric

SpecNum == InitNum /\ [][NextNum]_vars

-----------------------------------------------------------------------------
(* The rule engine as a state machine *)

\* the characters of samples and patterns: a letter in both cases, a second
\* letter and a character that is not alphanumeric
MatchChars == {"a", "A", "b", "_"}

Samples == StringsUpTo(MatchChars, MaxSampleLen)
Patterns == StringsUpTo(MatchChars, MaxPatternLen)

\* every predicate over the patterns
Predicates ==
  {Bounds(k, p, pos, cm) :
     k \in Positions, p \in Patterns, pos \in BOOLEAN, cm \in CaseMatchModes}

\* the predicates that And / Or nodes are built from, and the samples the
\* nodes are evaluated on
NodePredicates ==
  { Bounds("StartsWith", <<"a">>, TRUE, "Insensitive"),
    Bounds("EndsWith", <<"b">>, FALSE, "Sensitive") }
NodeSamples == { <<"a", "b">>, <<"A", "_">>, <<"b">>, <<"_", "a", "b">> }

\* the list l with the rule b inserted after its first k elements
InsertAt(l, k, b) == SubSeq(l, 1, k) \o <<b>> \o SubSeq(l, k + 1, Len(l))

\* the And / Or nodes nested at most d deep: the children of a node are
\* predicates and at most one nested node
RECURSIVE NodesOfDepth(_)
NodesOfDepth(d) ==
  LET flat == {[kind |-> f, rules |-> l] :
                 f \in {"And", "Or"},
                 l \in StringsUpTo(NodePredicates, MaxChildren)}
  IN  IF d <= 1 THEN flat
      ELSE flat \cup
           { [kind |-> f, rules |-> InsertAt(lk[1], lk[2], b)] :
               f \in {"And", "Or"},
               b \in NodesOfDepth(d - 1),
               lk \in { x \in StringsUpTo(NodePredicates, MaxChildren - 1)
                                \X (0..(MaxChildren - 1)) : x[2] <= Len(x[1]) } }

InitMatch ==
  /\ mode = "match"
  /\ \/ txt \in Samples /\ item \in Predicates
     \/ txt \in NodeSamples /\ item \in NodesOfDepth(MaxDepth)
  /\ is_matched = FALSE
  /\ IdleScan
  /\ IdleCorrect
  /\ IdleOthers

\* match_bounds_rule_set(txt, item)
MatchRuleSet ==
  /\ mode = "match"
  /\ is_matched' = match_bounds_rule_set(txt, item)
  /\ mode' = "matched"
  /\ UNCHANGED <<txt, item>>
  /\ UNCHANGED <<scan_vars, correct_vars, number_vars>>
  /\ UNCHANGED <<list_vars, builder_vars, segment_vars, enclose_vars, eval_vars>>

NextMatch == MatchRuleSet

SpecMatch == InitMatch /\ [][NextMatch]_vars

-----------------------------------------------------------------------------
(* The matchers and filters over a rule list as a state machine *)

MaxListRules == 2
MaxItems == 2

\* the rules the lists are made of: two predicates, the empty And and an Or
ListRules ==
  NodePredicates \cup
  { And(<<>>),
    Or(<<Bounds("Whole", <<"b">>, TRUE, "Sensitive"),
         Bounds("Contains", <<"_">>, TRUE, "AlphanumInsensitive")>>) }

RuleLists == StringsUpTo(ListRules, MaxListRules)

\* a sample and a rule list
InitConditional ==
  /\ mode = "conditional"
  /\ txt \in NodeSamples
  /\ rule_list \in RuleLists
  /\ item = And(<<>>) /\ is_matched = FALSE
  /\ strs = <<>> /\ matched = <<>> /\ filtered = <<>>
  /\ IdleScan /\ IdleCorrect /\ IdleNumber /\ IdleBuilder /\ IdleSegment
  /\ IdleEnclose /\ IdleEval

\* a collection of strings and a rule list
InitFilter ==
  /\ mode = "filter"
  /\ strs \in StringsUpTo(NodeSamples, MaxItems)
  /\ rule_list \in RuleLists
  /\ matched = <<>> /\ filtered = <<>>
  /\ IdleScan /\ IdleCorrect /\ IdleMatch
  /\ IdleNumber /\ IdleBuilder /\ IdleSegment
  /\ IdleEnclose /\ IdleEval

\* what an action of this machine leaves alone
ListFrame ==
  /\ UNCHANGED <<txt, item, rule_list, strs>>
  /\ UNCHANGED <<scan_vars, correct_vars, number_vars>>
  /\ UNCHANGED <<builder_vars, segment_vars, enclose_vars, eval_vars>>

\* txt.matched_conditional(rule_list)
MatchedConditional ==
  /\ mode = "conditional"
  /\ matched' = matched_conditional(txt, rule_list)
  /\ mode' = "matched_conditional"
  /\ UNCHANGED <<is_matched, filtered>>
  /\ ListFrame

\* txt.match_all_conditional(rule_list)
MatchAllConditional ==
  /\ mode = "conditional"
  /\ is_matched' = match_all_conditional(txt, rule_list)
  /\ mode' = "match_all_conditional"
  /\ UNCHANGED <<matched, filtered>>
  /\ ListFrame

\* txt.match_any_conditional(rule_list)
MatchAnyConditional ==
  /\ mode = "conditional"
  /\ is_matched' = match_any_conditional(txt, rule_list)
  /\ mode' = "match_any_conditional"
  /\ UNCHANGED <<matched, filtered>>
  /\ ListFrame

\* strs.filter_all_conditional(rule_list) of [&str]
FilterAllConditional ==
  /\ mode = "filter"
  /\ filtered' = filter_all_conditional(strs, rule_list)
  /\ mode' = "filter_all_conditional"
  /\ UNCHANGED <<is_matched, matched>>
  /\ ListFrame

\* strs.filter_all_conditional(rule_list) of [String]
FilterAllConditionalString ==
  /\ mode = "filter"
  /\ filtered' = filter_all_conditional_string(strs, rule_list)
  /\ mode' = "filter_all_conditional_string"
  /\ UNCHANGED <<is_matched, matched>>
  /\ ListFrame

\* strs.filter_any_conditional(rule_list) of [&str]
FilterAnyConditional ==
  /\ mode = "filter"
  /\ filtered' = filter_any_conditional(strs, rule_list)
  /\ mode' = "filter_any_conditional"
  /\ UNCHANGED <<is_matched, matched>>
  /\ ListFrame

\* strs.filter_any_conditional(rule_list) of [String]
FilterAnyConditionalString ==
  /\ mode = "filter"
  /\ filtered' = filter_any_conditional_string(strs, rule_list)
  /\ mode' = "filter_any_conditional_string"
  /\ UNCHANGED <<is_matched, matched>>
  /\ ListFrame

InitList == InitConditional \/ InitFilter

NextList ==
  \/ MatchedConditional
  \/ MatchAllConditional
  \/ MatchAnyConditional
  \/ FilterAllConditional
  \/ FilterAllConditionalString
  \/ FilterAnyConditional
  \/ FilterAnyConditionalString

SpecList == InitList /\ [][NextList]_vars

-----------------------------------------------------------------------------
(* BoundsBuilder as a state machine.  string_bounds is the list of a builder *)
(* held in a variable, returned the list of the builder the last call gave  *)
(* back, on which further calls can be chained. *)

MaxRules == 2
MaxEvaluations == 2
MaxPatterns == 2

\* the arguments of the single-rule methods
BuilderPatterns == { <<"a">> }
BuilderRules == { <<Bounds("Contains", <<"b">>, TRUE, "Sensitive")>> }
BuilderSamples == { <<"a", "b">>, <<"b">> }

\* BoundsBuilder::new, lines 10-14
InitBuilder ==
  /\ mode = "builder"
  /\ string_bounds = <<>>
  /\ returned = <<>>
  /\ receiver = "none"
  /\ snapshot = <<>>
  /\ evaluations = 0
  /\ arg_patterns = <<>> /\ arg_case_mode = "Sensitive"
  /\ arg_position = "Starts"
  /\ txt \in BuilderSamples
  /\ item = And(<<>>) /\ is_matched = FALSE
  /\ IdleScan /\ IdleCorrect /\ IdleNumber /\ IdleList /\ IdleSegment
  /\ IdleEnclose /\ IdleEval

\* what a call of a builder method leaves alone
BuilderFrame ==
  /\ UNCHANGED <<arg_patterns, arg_case_mode, arg_position>>
  /\ UNCHANGED <<txt, item>>
  /\ UNCHANGED <<scan_vars, correct_vars, number_vars>>
  /\ UNCHANGED <<list_vars, segment_vars, enclose_vars, eval_vars>>

\* a method of the builder has pushed and returns self.to_owned()
Returns(updated) ==
  /\ string_bounds' = updated
  /\ returned' = as_vec(updated)
  /\ receiver' = "builder"
  /\ UNCHANGED <<mode, snapshot, evaluations, is_matched>>
  /\ BuilderFrame

CanCall == mode = "builder" /\ Len(string_bounds) < MaxRules

StartsWith ==
  /\ CanCall
  /\ \E pat \in BuilderPatterns, is_pos \in BOOLEAN, ci \in BOOLEAN :
       Returns(builder_starts_with(string_bounds, pat, is_pos, ci))

StartsWithCiAlphanum ==
  /\ CanCall
  /\ \E pat \in BuilderPatterns, is_pos \in BOOLEAN :
       Returns(starts_with_ci_alphanum(string_bounds, pat, is_pos))

Contains ==
  /\ CanCall
  /\ \E pat \in BuilderPatterns, is_pos \in BOOLEAN, ci \in BOOLEAN :
       Returns(contains(string_bounds, pat, is_pos, ci))

ContainsCiAlphanum ==
  /\ CanCall
  /\ \E pat \in BuilderPatterns, is_pos \in BOOLEAN :
       Returns(contains_ci_alphanum(string_bounds, pat, is_pos))

EndsWith ==
  /\ CanCall
  /\ \E pat \in BuilderPatterns, is_pos \in BOOLEAN, ci \in BOOLEAN :
       Returns(builder_ends_with(string_bounds, pat, is_pos, ci))

EndsWithCiAlphanum ==
  /\ CanCall
  /\ \E pat \in BuilderPatterns, is_pos \in BOOLEAN :
       Returns(ends_with_ci_alphanum(string_bounds, pat, is_pos))

MatchesWhole ==
  /\ CanCall
  /\ \E pat \in BuilderPatterns, is_pos \in BOOLEAN, ci \in BOOLEAN :
       Returns(builder_matches_whole(string_bounds, pat, is_pos, ci))

AndRules ==
  /\ CanCall
  /\ \E rules \in BuilderRules : Returns(and(string_bounds, rules))

OrRules ==
  /\ CanCall
  /\ \E rules \in BuilderRules : Returns(or(string_bounds, rules))

\* a chained call whose push also lands on the list of the builder that the
\* receiver was cloned from
ChainedShared ==
  /\ mode = "builder"
  /\ Len(returned) < MaxRules
  /\ \E pat \in BuilderPatterns, is_pos \in BOOLEAN :
       /\ returned' = as_vec(builder_ends_with(returned, pat, is_pos, TRUE))
       /\ string_bounds' = builder_ends_with(string_bounds, pat, is_pos, TRUE)
  /\ receiver' = "returned"
  /\ UNCHANGED <<mode, snapshot, evaluations, is_matched>>
  /\ BuilderFrame

\* a call chained on the returned builder: the receiver is the clone, and
\* the call returns a clone of it
Chained ==
  /\ mode = "builder"
  /\ Len(returned) < MaxRules
  /\ \E pat \in BuilderPatterns, is_pos \in BOOLEAN :
       returned' = as_vec(builder_ends_with(returned, pat, is_pos, TRUE))
  /\ receiver' = "returned"
  /\ UNCHANGED <<mode, string_bounds, snapshot, evaluations, is_matched>>
  /\ BuilderFrame

\* as_vec, lines 17-19
AsVec ==
  /\ mode = "builder"
  /\ snapshot' = as_vec(string_bounds)
  /\ evaluations' = 0
  /\ UNCHANGED <<mode, string_bounds, returned, receiver, is_matched>>
  /\ BuilderFrame

\* txt.match_all_conditional(&snapshot)
Evaluate ==
  /\ mode = "builder"
  /\ evaluations < MaxEvaluations
  /\ is_matched' = match_all_conditional(txt, snapshot)
  /\ evaluations' = evaluations + 1
  /\ UNCHANGED <<mode, string_bounds, returned, receiver, snapshot>>
  /\ BuilderFrame

\* a batch method called with its arguments on a builder that holds some
\* rules already
BatchPatterns == { <<"a">>, <<"b">> }
BatchSamples == { <<"a", "b">>, <<"A", "_">>, <<"b">> }
PriorLists ==
  { <<>>, <<Bounds("Contains", <<"b">>, FALSE, "Insensitive")>> }

InitBatch ==
  /\ mode = "batch"
  /\ string_bounds \in PriorLists
  /\ returned = string_bounds
  /\ receiver = "none"
  /\ snapshot = <<>>
  /\ evaluations = 0
  /\ arg_patterns \in StringsUpTo(BatchPatterns, MaxPatterns)
  /\ arg_case_mode \in CaseMatchModes
  /\ arg_position \in BoundsPositions
  /\ txt \in BatchSamples
  /\ item = And(<<>>) /\ is_matched = FALSE
  /\ IdleScan /\ IdleCorrect /\ IdleNumber /\ IdleList /\ IdleSegment
  /\ IdleEnclose /\ IdleEval

\* the batch method has pushed and returns self.to_owned()
BatchReturns(method, updated) ==
  /\ mode' = method
  /\ string_bounds' = updated
  /\ returned' = as_vec(updated)
  /\ receiver' = "builder"
  /\ UNCHANGED <<snapshot, evaluations, is_matched>>
  /\ BuilderFrame

OrTrue ==
  /\ mode = "batch"
  /\ BatchReturns("or_true", or_true(string_bounds, arg_patterns, arg_case_mode, arg_position))

OrStartsWith ==
  /\ mode = "batch"
  /\ BatchReturns("or_starts_with", or_starts_with(string_bounds, arg_patterns, arg_case_mode))

OrContains ==
  /\ mode = "batch"
  /\ BatchReturns("or_contains", or_contains(string_bounds, arg_patterns, arg_case_mode))

OrEndsWith ==
  /\ mode = "batch"
  /\ BatchReturns("or_ends_with", or_ends_with(string_bounds, arg_patterns, arg_case_mode))

OrIs ==
  /\ mode = "batch"
  /\ BatchReturns("or_is", or_is(string_bounds, arg_patterns, arg_case_mode))

AndTrue ==
  /\ mode = "batch"
  /\ BatchReturns("and_true", and_true(string_bounds, arg_patterns, arg_case_mode, arg_position))

AndFalse ==
  /\ mode = "batch"
  /\ BatchReturns("and_false", and_false(string_bounds, arg_patterns, arg_case_mode, arg_position))

AndStartsWith ==
  /\ mode = "batch"
  /\ BatchReturns("and_starts_with", and_starts_with(string_bounds, arg_patterns, arg_case_mode))

AndNotStartsWith ==
  /\ mode = "batch"
  /\ BatchReturns("and_not_starts_with", and_not_starts_with(string_bounds, arg_patterns, arg_case_mode))

AndContains ==
  /\ mode = "batch"
  /\ BatchReturns("and_contains", and_contains(string_bounds, arg_patterns, arg_case_mode))

AndNotContains ==
  /\ mode = "batch"
  /\ BatchReturns("and_not_contains", and_not_contains(string_bounds, arg_patterns, arg_case_mode))

AndEndsWith ==
  /\ mode = "batch"
  /\ BatchReturns("and_ends_with", and_ends_with(string_bounds, arg_patterns, arg_case_mode))

AndNotEndsWith ==
  /\ mode = "batch"
  /\ BatchReturns("and_not_ends_with", and_not_ends_with(string_bounds, arg_patterns, arg_case_mode))

AndIs ==
  /\ mode = "batch"
  /\ BatchReturns("and_is", and_is(string_bounds, arg_patterns, arg_case_mode))

AndIsNot ==
  /\ mode = "batch"
  /\ BatchReturns("and_is_not", and_is_not(string_bounds, arg_patterns, arg_case_mode))

InitBuilders == InitBuilder \/ InitBatch

NextBuilder ==
  \/ StartsWith
  \/ StartsWithCiAlphanum
  \/ Contains
  \/ ContainsCiAlphanum
  \/ EndsWith
  \/ EndsWithCiAlphanum
  \/ MatchesWhole
  \/ AndRules
  \/ OrRules
  \/ Chained
  \/ AsVec
  \/ Evaluate
  \/ OrTrue
  \/ OrStartsWith
  \/ OrContains
  \/ OrEndsWith
  \/ OrIs
  \/ AndTrue
  \/ AndFalse
  \/ AndStartsWith
  \/ AndNotStartsWith
  \/ AndContains
  \/ AndNotContains
  \/ AndEndsWith
  \/ AndNotEndsWith
  \/ AndIs
  \/ AndIsNot

SpecBuilder == InitBuilders /\ [][NextBuilder]_vars

-----------------------------------------------------------------------------
(* The head/tail splits as a state machine *)

MaxSegLen == 4
MaxSepLen == 2

\* a letter and two separators
SegChars == {"a", ",", "-"}

InitSeg ==
  /\ mode = "split"
  /\ subject \in StringsUpTo(SegChars, MaxSegLen)
  /\ separator \in StringsUpTo(SegChars, MaxSepLen)
  /\ pair = <<<<>>, <<>>>>
  /\ tail = <<>>
  /\ IdleScan /\ IdleCorrect /\ IdleMatch
  /\ IdleNumber /\ IdleList /\ IdleBuilder /\ IdleEnclose /\ IdleEval

SegFrame ==
  /\ UNCHANGED <<subject, separator>>
  /\ UNCHANGED <<scan_vars, correct_vars, match_vars>>
  /\ UNCHANGED <<number_vars, list_vars, builder_vars, enclose_vars, eval_vars>>

\* subject.to_head_tail(separator)
ToHeadTail ==
  /\ mode = "split"
  /\ pair' = to_head_tail(subject, separator)
  /\ mode' = "to_head_tail"
  /\ UNCHANGED tail
  /\ SegFrame

\* subject.to_start_end(separator)
ToStartEnd ==
  /\ mode = "split"
  /\ pair' = to_start_end(subject, separator)
  /\ mode' = "to_start_end"
  /\ UNCHANGED tail
  /\ SegFrame

\* subject.to_tail(separator)
ToTail ==
  /\ mode = "split"
  /\ tail' = to_tail(subject, separator)
  /\ mode' = "to_tail"
  /\ UNCHANGED pair
  /\ SegFrame

NextSeg == ToHeadTail \/ ToStartEnd \/ ToTail

SpecSeg == InitSeg /\ [][NextSeg]_vars

-----------------------------------------------------------------------------
(* enclose_in_chars as a state machine *)

MaxContentLen == 3

\* a letter, two closing characters and the backslash
EncloseChars == {"a", ")", "'", "\\"}

InitEnclose ==
  /\ mode = "enclose"
  /\ content \in StringsUpTo(EncloseChars, MaxContentLen)
  /\ start \in {"(", "'"}
  /\ end \in {")", "'"}
  /\ prefix \in {NoValue, Some(<<"?", "=">>)}
  /\ escape_char \in {NoValue, Some("\\"), Some("'")}
  /\ enclosed = <<>>
  /\ IdleScan /\ IdleCorrect /\ IdleMatch
  /\ IdleNumber /\ IdleList /\ IdleBuilder /\ IdleSegment /\ IdleEval

\* content.enclose_in_chars(start, end, prefix, escape_char)
EncloseInChars ==
  /\ mode = "enclose"
  /\ enclosed' = enclose_in_chars(content, start, end, prefix, escape_char)
  /\ mode' = "enclose_in_chars"
  /\ UNCHANGED <<content, start, end, prefix, escape_char>>
  /\ UNCHANGED <<scan_vars, correct_vars, match_vars>>
  /\ UNCHANGED <<number_vars, list_vars, builder_vars, segment_vars>>
  /\ UNCHANGED eval_vars

NextEnclose == EncloseInChars

SpecEnclose == InitEnclose /\ [][NextEnclose]_vars

-----------------------------------------------------------------------------
(* match_all_conditional and match_any_conditional, one call of            *)
(* match_bounds_rule_set at a time.  A frame of the call stack is a rule    *)
(* list being iterated: the pattern_sets of the entry point ("all", "any")  *)
(* or the inner_rules of an And / Or node, with the results obtained so far *)

\* the rules of the evaluated lists: the two predicates, flat nodes, the
\* empty And and a node with a nested node
EvalRules ==
  NodePredicates \cup
  { And(<<>>),
    And(<<Bounds("StartsWith", <<"a">>, TRUE, "Insensitive"),
          Bounds("EndsWith", <<"b">>, FALSE, "Sensitive")>>),
    Or(<<Bounds("EndsWith", <<"b">>, FALSE, "Sensitive"),
         Bounds("StartsWith", <<"a">>, TRUE, "Insensitive")>>),
    Or(<<And(<<Bounds("StartsWith", <<"a">>, TRUE, "Insensitive"),
               Bounds("EndsWith", <<"b">>, FALSE, "Sensitive")>>),
         Bounds("Contains", <<"_">>, TRUE, "Sensitive")>>) }

Frame(kind, rules) == [kind |-> kind, rules |-> rules, results |-> <<>>]

InitEval ==
  /\ mode = "evaluate"
  /\ txt \in NodeSamples
  /\ rule_list \in StringsUpTo(EvalRules, MaxListRules)
  /\ \E entry \in {"all", "any"} : call_stack = <<Frame(entry, rule_list)>>
  /\ item = And(<<>>) /\ is_matched = FALSE
  /\ strs = <<>> /\ matched = <<>> /\ filtered = <<>>
  /\ IdleScan /\ IdleCorrect /\ IdleNumber /\ IdleBuilder /\ IdleSegment
  /\ IdleEnclose

EvalFrame ==
  /\ UNCHANGED <<txt, item, rule_list, strs, matched, filtered>>
  /\ UNCHANGED <<scan_vars, correct_vars, number_vars>>
  /\ UNCHANGED <<builder_vars, segment_vars, enclose_vars>>

\* the frame being iterated and the rule its loop is about to evaluate
TopFrame == call_stack[Len(call_stack)]
NextRule == TopFrame.rules[Len(TopFrame.results) + 1]

\* the loop of the frame goes on to its next rule: the loops of lines
\* 216-221 and 263-268 return early, the loop of matched_conditional
\* (lines 177-179) runs to the end of the list
Iterates(f) ==
  /\ Len(f.results) < Len(f.rules)
  /\ f.kind = "all" => \A j \in 1..Len(f.results) : f.results[j]
  /\ f.kind = "any" => \A j \in 1..Len(f.results) : ~f.results[j]

\* the call stack with the result of the rule just evaluated recorded
Recorded(stack, result) ==
  [stack EXCEPT ![Len(stack)].results = Append(@, result)]

\* match_bounds_rule_set on a predicate, line 168
EvaluateRule ==
  /\ mode = "evaluate"
  /\ Iterates(TopFrame)
  /\ NextRule.kind \in Positions
  /\ call_stack' = Recorded(call_stack, match_bounds_rule(txt, NextRule))
  /\ UNCHANGED <<mode, is_matched>>
  /\ EvalFrame

\* match_bounds_rule_set on an And / Or node, lines 166-167: the call of
\* matched_conditional on its inner rules
EnterNode ==
  /\ mode = "evaluate"
  /\ Iterates(TopFrame)
  /\ NextRule.kind \in {"And", "Or"}
  /\ call_stack' = Append(call_stack, Frame(NextRule.kind, NextRule.rules))
  /\ UNCHANGED <<mode, is_matched>>
  /\ EvalFrame

\* matched_conditional returns and .all() / .any() folds its vector
ReturnNode ==
  /\ mode = "evaluate"
  /\ Len(call_stack) > 1
  /\ ~Iterates(TopFrame)
  /\ call_stack' =
       Recorded(SubSeq(call_stack, 1, Len(call_stack) - 1),
                IF TopFrame.kind = "And" THEN iter_all(TopFrame.results)
                                         ELSE iter_any(TopFrame.results))
  /\ UNCHANGED <<mode, is_matched>>
  /\ EvalFrame

\* match_all_conditional returns, lines 215-227
ReturnAll ==
  /\ mode = "evaluate"
  /\ Len(call_stack) = 1
  /\ TopFrame.kind = "all"
  /\ ~Iterates(TopFrame)
  /\ is_matched' = (/\ Len(TopFrame.rules) > 0
                    /\ \A j \in 1..Len(TopFrame.results) : TopFrame.results[j])
  /\ mode' = "match_all_conditional"
  /\ UNCHANGED call_stack
  /\ EvalFrame

\* match_any_conditional returns, lines 262-269
ReturnAny ==
  /\ mode = "evaluate"
  /\ Len(call_stack) = 1
  /\ TopFrame.kind = "any"
  /\ ~Iterates(TopFrame)
  /\ is_matched' = (\E j \in 1..Len(TopFrame.results) : TopFrame.results[j])
  /\ mode' = "match_any_conditional"
  /\ UNCHANGED call_stack
  /\ EvalFrame

NextEval ==
  EvaluateRule \/ EnterNode \/ ReturnNode \/ ReturnAll \/ ReturnAny

SpecEval == InitEval /\ [][NextEval]_vars

-----------------------------------------------------------------------------
(* The library as a whole *)

Init ==
  InitNum \/ InitMatch \/ InitList \/ InitBuilders \/ InitSeg \/ InitEnclose
    \/ InitEval

Next ==
  NextNum \/ NextMatch \/ NextList \/ NextBuilder \/ NextSeg \/ NextEnclose
    \/ NextEval

Spec == Init /\ [][Next]_vars

-----------------------------------------------------------------------------
(* Properties of the numeric path *)

\* the number of occurrences of the character c in s
Count(s, c) == Cardinality({i \in 1..Len(s) : s[i] = c})

\* s without its occurrences of the character c
RECURSIVE Without(_, _)
Without(s, c) ==
  IF s = <<>> THEN <<>>
  ELSE IF s[1] = c THEN Without(Tail(s), c)
  ELSE <<s[1]>> \o Without(Tail(s), c)

\* 0-based offset of the last occurrence of c in s (s contains c)
LastOffset(s, c) == CHOOSE k \in 0..(Len(s) - 1) :
  s[k + 1] = c /\ \A j \in (k + 1)..(Len(s) - 1) : s[j + 1] # c

\* the shape of a scanned token: an optional leading '-', digit runs joined by
\* single '.' or ',' separators, a digit last
TokenShape(s) ==
  /\ s # <<>>
  /\ \A i \in 1..Len(s) : s[i] \in Digits \cup {".", ",", "-"}
  /\ \A i \in 1..Len(s) : s[i] = "-" => i = 1
  /\ \A i \in 1..Len(s) : s[i] \in {".", ","} =>
       i > 1 /\ i < Len(s) /\ s[i - 1] \in Digits /\ s[i + 1] \in Digits
  /\ s[Len(s)] \in Digits

\* C1: every string returned by to_numeric_strings_conditional satisfies
\* is_numeric, for every input and either flag value.
C1_EveryTokenIsNumeric ==
  mode = "scan" => \A i \in 1..Len(output) : is_numeric(output[i])

\* C2: for a candidate of token shape and either flag value,
\* correct_numeric_string returns a string with no ',' and at most one '.'.
C2_NoCommaOnePoint ==
  (mode = "corrected" /\ TokenShape(candidate)) =>
    (Count(corrected, ",") = 0 /\ Count(corrected, ".") <= 1)

\* C3: a candidate with at least one '.' and exactly one ',' placed after the
\* last '.' comes back with every '.' removed and the ',' turned into '.',
\* whatever the flag; "1.999,50" gives "1999.50".
C3_Applies(s) ==
  /\ Count(s, ".") >= 1
  /\ Count(s, ",") = 1
  /\ LastOffset(s, ",") > LastOffset(s, ".")

C3_Expected(s) ==
  LET t == Without(s, ".")
  IN  [i \in 1..Len(t) |-> IF t[i] = "," THEN "." ELSE t[i]]

C3_EuropeanDecimalComma ==
  (mode = "corrected" /\ C3_Applies(candidate)) =>
    corrected = C3_Expected(candidate)

C3_Witness ==
  /\ mode = "corrected"
  /\ candidate = <<"1", ".", "9", "9", "9", ",", "5", "0">>
  /\ corrected = <<"1", "9", "9", "9", ".", "5", "0">>

\* an already-normalized numeric string: digits, an optional leading '-',
\* exactly one '.', no ','
Normalized(s) ==
  /\ \A i \in 1..Len(s) : s[i] \in Digits \cup {".", "-"}
  /\ \A i \in 1..Len(s) : s[i] = "-" => i = 1
  /\ Count(s, ".") = 1

\* C4 as stated: correct_numeric_string returns an already-normalized numeric
\* string unchanged for either flag value.
C4_IdempotentEitherFlag ==
  (mode = "corrected" /\ Normalized(candidate)) => corrected = candidate

\* C4: correct_numeric_string returns an already-normalized numeric string
\* unchanged when the flag is off, and without its '.' when the flag is on.
C4_IdempotentFlagOff ==
  (mode = "corrected" /\ Normalized(candidate)) =>
    IF candidate_flag THEN corrected = Without(candidate, ".")
                      ELSE corrected = candidate

C4_Witness ==
  /\ mode = "corrected"
  /\ ~candidate_flag
  /\ candidate = <<"-", "1", "2", "2", "7", ".", "7", "5">>
  /\ corrected = candidate

\* C5 as stated: with the flag off, a candidate with a single '.' and no ','
\* loses its dot ("1.500" gives "1500").
C5_LoneDotRemoved ==
  (/\ mode = "corrected"
   /\ ~candidate_flag
   /\ Count(candidate, ".") = 1
   /\ Count(candidate, ",") = 0) => corrected = Without(candidate, ".")

\* C5: with the flag off, a candidate with a single '.' and no ',' keeps its
\* dot as the decimal point and is returned unchanged ("1.500" gives "1.500").
C5_LoneDotKept ==
  (/\ mode = "corrected"
   /\ ~candidate_flag
   /\ Count(candidate, ".") = 1
   /\ Count(candidate, ",") = 0) =>
     (corrected = candidate /\ Count(corrected, ".") = 1)

C5_Witness ==
  /\ mode = "corrected"
  /\ ~candidate_flag
  /\ candidate = <<"1", ".", "5", "0", "0">>
  /\ corrected = <<"1", ".", "5", "0", "0">>

\* the token that the loop iteration about to run pushes, if it pushes one
NextToken == scan_component(input[index + 1]).num_string
PushesToken ==
  mode = "scan" /\ index < Len(input)
    /\ is_flushed(scan_component(input[index + 1]))

\* the digits before and after the single '.' of s
BeforePoint(s) == SubSeq(s, 1, LastOffset(s, "."))
AfterPoint(s) == SubSeq(s, LastOffset(s, ".") + 2, Len(s))

\* C6: with the flag off, a token with exactly one '.' and no ',' is pushed
\* unchanged, and to_first_number reads it as a decimal: the digits before
\* the dot are the integer part, the digits after it the fraction; text
\* containing "2.5lb" yields 2.5.
C6_PushedUnchanged ==
  (/\ PushesToken
   /\ ~enforce_comma_separator
   /\ Count(NextToken, ".") = 1
   /\ Count(NextToken, ",") = 0) => output' = Append(output, NextToken)

C6_FirstNumberIsDecimal ==
  (ScanReturned /\ ~enforce_comma_separator) =>
    /\ (input = InputFlour =>
          to_first_number(output, "f32") = Number(FALSE, <<"2">>, <<"5">>))
    /\ (/\ output # <<>>
        /\ Count(output[1], ".") = 1
        /\ Count(output[1], ",") = 0) =>
          LET n == to_first_number(output, "f32")
              digits == Without(BeforePoint(output[1]), "-")
          IN  /\ n.ok
              /\ n.int = strip_leading_zeros(digits)
              /\ n.frac = strip_trailing_zeros(AfterPoint(output[1]))

C6_SingleDotIsDecimal ==
  [][C6_PushedUnchanged]_vars /\ []C6_FirstNumberIsDecimal

C6_Witness ==
  /\ ScanReturned
  /\ ~enforce_comma_separator
  /\ input = InputFlour
  /\ output = << <<"2", ".", "5">> >>

\* C7: with the flag on, a candidate with one or more '.' and no ',' loses
\* every '.'; the euro extraction of "1.500" is the integer 1500 and
\* to_numbers_euro on "12,50 ... 1.500" yields [12.5, 1500].
C7_EuroDotsAreThousands ==
  /\ (/\ mode = "corrected"
      /\ candidate_flag
      /\ Count(candidate, ".") >= 1
      /\ Count(candidate, ",") = 0) => corrected = Without(candidate, ".")
  /\ (ScanReturned /\ enforce_comma_separator /\ input = InputFurgone) =>
       to_first_number(output, "u32")
         = Number(FALSE, <<"1", "5", "0", "0">>, <<>>)
  /\ (ScanReturned /\ enforce_comma_separator /\ input = InputSale) =>
       to_numbers_conditional(output, "f32")
         = << Number(FALSE, <<"1", "2">>, <<"5">>),
              Number(FALSE, <<"1", "5", "0", "0">>, <<>>) >>

C7_Witness ==
  /\ ScanReturned
  /\ enforce_comma_separator
  /\ input = InputSale
  /\ output = << <<"1", "2", ".", "5", "0">>, <<"1", "5", "0", "0">> >>

\* C8: every string the scan has pushed consists only of digits, '.', ','
\* and '-', contains a digit, and contains '-' at most once and only first.
C8_TokenCharacters ==
  mode = "scan" =>
    \A i \in 1..Len(output) :
      LET t == output[i]
      IN  /\ \A k \in 1..Len(t) : t[k] \in Digits \cup {".", ",", "-"}
          /\ \E k \in 1..Len(t) : t[k] \in Digits
          /\ Count(t, "-") <= 1
          /\ \A k \in 1..Len(t) : t[k] = "-" => k = 1

C8_Witness ==
  /\ ScanReturned
  /\ input = <<"x", "-", "1", ",", "2">>
  /\ ~enforce_comma_separator
  /\ output = << <<"-", "1", ".", "2">> >>

-----------------------------------------------------------------------------
(* Properties of is_numeric and of the parsed numbers *)

\* the character at position i of the checked string is a digit, or '-' at
\* position 0, or the first '.' of the string and not in the last position
C17_Accepted(i) ==
  \/ IsDigit(candidate[i])
  \/ candidate[i] = "-" /\ i = 1
  \/ /\ candidate[i] = "."
     /\ i < Len(candidate)
     /\ \A j \in 1..(i - 1) : candidate[j] # "."

\* C17: is_numeric(s) is true iff s is non-empty and every character is a
\* digit, or '-' at position 0, or the first '.' and not in the last
\* position; it is false for the empty string, for a string with a ',' or a
\* space, and for a string with two '.'.
C17_NumericCharacterization ==
  mode = "checked" =>
    /\ numeric = (candidate # <<>> /\
                  \A i \in 1..Len(candidate) : C17_Accepted(i))
    /\ candidate = <<>> => ~numeric
    /\ (Count(candidate, ",") > 0 \/ Count(candidate, " ") > 0) => ~numeric
    /\ Count(candidate, ".") >= 2 => ~numeric

C17_Witness ==
  /\ mode = "checked"
  /\ candidate = <<"-", "1", ".", "1">>
  /\ numeric = TRUE

\* C18: every string for which is_numeric returns true is a valid numeric
\* literal: an optional leading '-', at least one digit, at most one '.'.
C18_NumericIsLiteral ==
  (mode = "checked" /\ numeric) =>
    /\ \E i \in 1..Len(candidate) : IsDigit(candidate[i])
    /\ Count(candidate, ".") <= 1
    /\ \A i \in 1..Len(candidate) :
         \/ IsDigit(candidate[i])
         \/ candidate[i] = "."
         \/ candidate[i] = "-" /\ i = 1

\* the tokens of a list that parse as the type T, parsed, in their order
RECURSIVE C19_Parsed(_, _)
C19_Parsed(strings, T) ==
  IF strings = <<>> THEN <<>>
  ELSE IF parse(Head(strings), T).ok
         THEN <<parse(Head(strings), T)>> \o C19_Parsed(Tail(strings), T)
         ELSE C19_Parsed(Tail(strings), T)

\* C19: numeric extraction never fails.  For an input with no digit the
\* scan and to_numbers_conditional return empty sequences and
\* to_first_number returns None; in general to_numbers_conditional returns,
\* in order, exactly the tokens that parse as the target type and
\* to_first_number returns the first of them.
C19_ExtractionNeverFails ==
  mode = "first_number" =>
    /\ (\A i \in 1..Len(input) : ~IsDigit(input[i]))
         => (output = <<>> /\ parsed_numbers = <<>>
               /\ first_number = NoValue)
    /\ parsed_numbers = C19_Parsed(output, target)
    /\ first_number =
         IF C19_Parsed(output, target) = <<>> THEN NoValue
         ELSE Head(C19_Parsed(output, target))

\* the first token does not parse as the target type and the second does
C19_Witness ==
  /\ mode = "first_number"
  /\ target = "u32"
  /\ Len(output) = 2
  /\ ~parse(output[1], target).ok
  /\ first_number = parse(output[2], target)
  /\ first_number.ok

-----------------------------------------------------------------------------
(* Properties of the rule engine *)

\* C9: a single predicate compares the sample (lower-cased for Insensitive,
\* lower-cased and stripped of non-alphanumerics for AlphanumInsensitive,
\* unchanged for Sensitive) with the pattern (lower-cased unless Sensitive,
\* never stripped) by the test of its position, and returns whether the test
\* equals the positive flag; flipping the flag negates the result.
C9_Sample ==
  CASE item.case_mode = "Sensitive" -> txt
    [] item.case_mode = "Insensitive" -> to_lowercase(txt)
    [] item.case_mode = "AlphanumInsensitive" ->
         strip_non_alphanum(to_lowercase(txt))

C9_Pattern ==
  IF item.case_mode = "Sensitive" THEN item.pattern
                                  ELSE to_lowercase(item.pattern)

C9_Test ==
  CASE item.kind = "StartsWith" -> str_starts_with(C9_Sample, C9_Pattern)
    [] item.kind = "EndsWith" -> str_ends_with(C9_Sample, C9_Pattern)
    [] item.kind = "Whole" -> C9_Sample = C9_Pattern
    [] item.kind = "Contains" -> str_contains(C9_Sample, C9_Pattern)

C9_PredicateEvaluation ==
  (mode = "matched" /\ item.kind \in Positions) =>
    /\ is_matched = (C9_Test = item.positive)
    /\ match_bounds_rule_set(txt, [item EXCEPT !.positive = ~@]) = ~is_matched

C9_Witness ==
  /\ mode = "matched"
  /\ txt = <<"_", "A", "b">>
  /\ item = Bounds("StartsWith", <<"a">>, FALSE, "AlphanumInsensitive")
  /\ is_matched = FALSE

\* C10: at any nesting depth an And node is true iff every child evaluates
\* true and an Or node is true iff at least one child evaluates true; an And
\* node without children is true, an Or node without children is false.
RECURSIVE C10_Evaluates(_, _)
C10_Evaluates(b, t) ==
  IF b.kind = "And"
    THEN \A i \in 1..Len(b.rules) : C10_Evaluates(b.rules[i], t)
  ELSE IF b.kind = "Or"
    THEN \E i \in 1..Len(b.rules) : C10_Evaluates(b.rules[i], t)
  ELSE match_bounds_rule(t, b)

C10_NodeEvaluation ==
  (mode = "matched" /\ item.kind \in {"And", "Or"}) =>
    /\ is_matched = C10_Evaluates(item, txt)
    /\ item = And(<<>>) => is_matched
    /\ item = Or(<<>>) => ~is_matched

C10_Witness ==
  /\ mode = "matched"
  /\ txt = <<"a", "b">>
  /\ item = Or(<< And(<< Bounds("StartsWith", <<"a">>, TRUE, "Insensitive"),
                         Bounds("EndsWith", <<"b">>, FALSE, "Sensitive") >>),
                  Bounds("StartsWith", <<"a">>, TRUE, "Insensitive") >>)
  /\ is_matched = TRUE

-----------------------------------------------------------------------------
(* Properties of the matchers and filters over a rule list *)

\* C11 as the specification states it: match_all_conditional with an empty
\* rule list returns true for every sample string.
C11_EmptyListMatchesAll ==
  (mode = "match_all_conditional" /\ rule_list = <<>>) => is_matched = TRUE

\* C11, corrected: match_all_conditional with an empty rule list returns
\* false for every sample string; only a nested And node with an empty list
\* evaluates true.
C11_EmptyListMatchesNone ==
  (mode = "match_all_conditional" /\ rule_list = <<>>)
    => (is_matched = FALSE /\ match_bounds_rule_set(txt, And(rule_list)))

C11_Witness ==
  /\ mode = "match_all_conditional"
  /\ rule_list = <<>>
  /\ txt = <<"a", "b">>
  /\ is_matched = FALSE

\* the result of every rule of the list on the sample, in rule order
C12_Vector ==
  [i \in 1..Len(rule_list) |-> match_bounds_rule_set(txt, rule_list[i])]

\* C12: matched_conditional returns one boolean per rule in rule order,
\* match_any_conditional is the disjunction of that vector (false for the
\* empty list) and, for a list that is not empty, match_all_conditional is
\* its conjunction.
C12_VectorAndAggregates ==
  /\ mode = "matched_conditional"
       => (Len(matched) = Len(rule_list) /\ matched = C12_Vector)
  /\ mode = "match_any_conditional"
       => (is_matched = (\E i \in 1..Len(rule_list) : C12_Vector[i]))
  /\ (mode = "match_any_conditional" /\ rule_list = <<>>)
       => is_matched = FALSE
  /\ (mode = "match_all_conditional" /\ rule_list # <<>>)
       => (is_matched = (\A i \in 1..Len(rule_list) : C12_Vector[i]))

\* the second of two rules is the only one matched
C12_Witness ==
  /\ mode = "match_any_conditional"
  /\ Len(rule_list) = 2
  /\ C12_Vector = <<FALSE, TRUE>>
  /\ is_matched = TRUE

\* the test a filter applies: match_all_conditional or match_any_conditional
C13_Keeps(s, all) ==
  IF all THEN match_all_conditional(s, rule_list)
         ELSE match_any_conditional(s, rule_list)

\* the number of elements kept among the first i elements of the collection
C13_Rank(i, all) == Cardinality({j \in 1..i : C13_Keeps(strs[j], all)})

\* the result holds the kept elements and nothing else, in their order
C13_Exactly(all) ==
  /\ Len(filtered) = C13_Rank(Len(strs), all)
  /\ \A i \in 1..Len(strs) :
       C13_Keeps(strs[i], all) => filtered[C13_Rank(i, all)] = strs[i]

\* C13: filter_all_conditional (filter_any_conditional) returns exactly the
\* elements for which match_all_conditional (match_any_conditional) is true,
\* in their original order, and the [&str] and [String] implementations
\* keep the same elements.
C13_FiltersKeepMatching ==
  /\ mode \in {"filter_all_conditional", "filter_all_conditional_string"}
       => C13_Exactly(TRUE)
  /\ mode \in {"filter_any_conditional", "filter_any_conditional_string"}
       => C13_Exactly(FALSE)

\* the first of two different strings is dropped and the second is kept by a
\* rule list that match_all_conditional rejects for both
C13_Witness ==
  /\ mode = "filter_any_conditional_string"
  /\ Len(strs) = 2
  /\ strs[1] # strs[2]
  /\ filtered = <<strs[2]>>
  /\ ~match_all_conditional(strs[2], rule_list)

-----------------------------------------------------------------------------
(* Properties of BoundsBuilder *)

\* the list l has gained exactly one node at its end
C14_Appended(l, updated) ==
  /\ Len(updated) = Len(l) + 1
  /\ SubSeq(updated, 1, Len(l)) = l

\* C14: each builder call appends exactly one node to the end of the
\* receiver's list, leaves the earlier nodes and their order unchanged, and
\* returns a builder whose list equals the receiver's updated list; the
\* batch or_* / and_* methods included.  A step that takes no snapshot and
\* evaluates none is a builder call, on the builder or on the returned one.
C14_EachCallAppendsOne ==
  [][ (snapshot' = snapshot /\ evaluations' = evaluations)
        => \/ /\ C14_Appended(string_bounds, string_bounds')
              /\ returned' = string_bounds'
           \/ /\ string_bounds' = string_bounds
              /\ C14_Appended(returned, returned') ]_vars

\* a batch method has appended its one node after an earlier rule
C14_Witness ==
  /\ mode = "or_starts_with"
  /\ arg_patterns = << <<"a">>, <<"b">> >>
  /\ Len(string_bounds) = 2
  /\ string_bounds[1] = Bounds("Contains", <<"b">>, FALSE, "Insensitive")
  /\ string_bounds[2].kind = "Or"
  /\ returned = string_bounds

\* C15: appending to the builder after as_vec never changes the snapshot,
\* appending to the builder a call returned never changes the receiver's
\* list, and evaluating the snapshot again on the same sample gives the same
\* result and leaves the snapshot unchanged.
C15_SnapshotIndependent ==
  [][ /\ (string_bounds' # string_bounds \/ returned' # returned)
           => snapshot' = snapshot
      /\ (receiver' = "returned" /\ returned' # returned)
           => string_bounds' = string_bounds
      /\ (evaluations' = evaluations + 1)
           => /\ snapshot' = snapshot
              /\ evaluations > 0 => is_matched' = is_matched ]_vars

\* a snapshot of one rule, evaluated, outlived by a second rule of the
\* builder
C15_Witness ==
  /\ mode = "builder"
  /\ receiver = "builder"
  /\ Len(snapshot) = 1
  /\ Len(string_bounds) = 2
  /\ string_bounds[1] = snapshot[1]
  /\ evaluations = MaxEvaluations
  /\ is_matched = TRUE

\* the position a batch method builds its predicates at
C16_Position ==
  CASE mode \in {"or_true", "and_false"} -> arg_position
    [] mode \in {"or_starts_with", "and_not_starts_with"} -> "Starts"
    [] mode \in {"or_contains", "and_not_contains"} -> "Contains"
    [] mode \in {"or_ends_with", "and_not_ends_with"} -> "Ends"
    [] mode \in {"or_is", "and_is_not"} -> "Whole"

C16_Kind ==
  CASE C16_Position = "Starts" -> "StartsWith"
    [] C16_Position = "Contains" -> "Contains"
    [] C16_Position = "Ends" -> "EndsWith"
    [] C16_Position = "Whole" -> "Whole"

\* the positive predicates for the patterns, in order
C16_Positive ==
  [i \in 1..Len(arg_patterns) |->
     Bounds(C16_Kind, arg_patterns[i], TRUE, arg_case_mode)]

C16_LastNode == string_bounds[Len(string_bounds)]

C16_OrHelpers ==
  {"or_true", "or_starts_with", "or_contains", "or_ends_with", "or_is"}
C16_AndNotHelpers ==
  {"and_false", "and_not_starts_with", "and_not_contains",
   "and_not_ends_with", "and_is_not"}

\* C16: an or_* helper appends one Or node whose children are the positive
\* predicates for its patterns at its position and case mode, in order; an
\* and_not_* helper appends one node that is true exactly when at least one
\* pattern does not match.
C16_BatchHelpers ==
  /\ mode \in C16_OrHelpers \cup C16_AndNotHelpers
       => SubSeq(string_bounds, 1, Len(string_bounds) - 1) \in PriorLists
  /\ mode \in C16_OrHelpers => C16_LastNode = Or(C16_Positive)
  /\ mode \in C16_AndNotHelpers
       => (match_bounds_rule_set(txt, C16_LastNode)
             = ~(\A i \in 1..Len(arg_patterns) :
                   match_bounds_rule(txt, C16_Positive[i])))

\* the sample starts with the first pattern and not with the second
C16_Witness ==
  /\ mode = "and_not_starts_with"
  /\ arg_patterns = << <<"a">>, <<"b">> >>
  /\ arg_case_mode = "Insensitive"
  /\ txt = <<"A", "_">>
  /\ match_bounds_rule_set(txt, C16_LastNode) = TRUE

-----------------------------------------------------------------------------
(* Properties of the head/tail splits *)

\* the separator occurs in the string
C20_Occurs ==
  \E k \in 0..(Len(subject) - Len(separator)) :
    \A i \in 1..Len(separator) : subject[k + i] = separator[i]

\* C20: when the separator does not occur, to_start_end returns
\* (whole, "") and to_head_tail returns ("", whole); when it occurs,
\* first + separator + second is the original string.
C20_SplitNeverFails ==
  /\ (mode = "to_start_end" /\ ~C20_Occurs) => pair = <<subject, <<>>>>
  /\ (mode = "to_head_tail" /\ ~C20_Occurs) => pair = <<<<>>, subject>>
  /\ (mode \in {"to_start_end", "to_head_tail"} /\ C20_Occurs)
       => pair[1] \o separator \o pair[2] = subject

\* a string of three characters without the separator
C20_Witness ==
  /\ mode = "to_head_tail"
  /\ subject = <<"a", ",", "a">>
  /\ separator = <<"-">>
  /\ pair = <<<<>>, subject>>

\* C21: to_tail returns the remainder after the first occurrence of the
\* separator, or the whole string if the separator is absent.
C21_TailOrWhole ==
  mode = "to_tail" =>
    IF C20_Occurs
      THEN \E k \in 0..(Len(subject) - Len(separator)) :
             /\ SubSeq(subject, k + 1, k + Len(separator)) = separator
             /\ \A j \in 0..(k - 1) :
                  SubSeq(subject, j + 1, j + Len(separator)) # separator
             /\ tail = SubSeq(subject, k + Len(separator) + 1, Len(subject))
      ELSE tail = subject

-----------------------------------------------------------------------------
(* Properties of enclose_in_chars *)

\* C22: when an escape character is given, every end character strictly
\* between the opening character and the final closing character of the
\* result is immediately preceded by the escape character.
C22_EveryEndEscaped ==
  (mode = "enclose_in_chars" /\ escape_char.ok) =>
    \A i \in 2..(Len(enclosed) - 1) :
      enclosed[i] = end => enclosed[i - 1] = escape_char.value

-----------------------------------------------------------------------------
(* Further properties of the scanner *)

\* s without its '.' and ','
C23_WithoutSeparators(s) == SelectSeq(s, LAMBDA c : c \notin {".", ","})

\* no emitted token ends in '.' or ','
C23_NoTrailingSeparator ==
  \A i \in 1..Len(output) :
    output[i] # <<>> => output[i][Len(output[i])] \notin {".", ","}

\* the iteration about to run reads a separator that follows a digit and is
\* the last character of the input, or reads a non-digit that follows such
\* a separator
C23_SeparatorEndsNumber ==
  /\ mode = "scan" /\ index < Len(input)
  /\ LET c == input[index + 1]
     IN  ((/\ index = Len(input) - 1
           /\ c \in {".", ",", OneDotLeader}
           /\ IsDigit(prev_char))
          \/
          (/\ index >= 2
           /\ input[index] \in {".", ",", OneDotLeader}
           /\ IsDigit(input[index - 1])
           /\ ~IsDigit(c)))

\* the separator is dropped and the digits before it are emitted
C23_SeparatorDropped ==
  C23_SeparatorEndsNumber =>
    /\ Len(output') = Len(output) + 1
    /\ SubSeq(output', 1, Len(output)) = output
    /\ C23_WithoutSeparators(output'[Len(output')])
         = C23_WithoutSeparators(num_string)

\* nothing is pending when the input ends
C23_FlushedAtEnd == ScanReturned => (num_string = <<>> /\ seq_num = 0)

\* strip_non_numeric scans with the flag off (integration_tests.rs 284-286)
C23_Example ==
  (ScanReturned /\ input = InputSpent /\ ~enforce_comma_separator) =>
    output = << <<"9", "9", "9", "9", ".", "9", "9">>, <<"2">>, <<"7", "2">> >>

\* C23: no emitted token ends in '.' or ','; a '.' or ',' that is the last
\* character of the input, or that is followed by a non-digit, is dropped
\* and the digits before it are emitted as a token; any pending token is
\* flushed when the input ends ("...9999.99 on 2 motorbikes at the age of
\* 72." yields exactly 9999.99, 2, 72).
C23_SeparatorNeverEndsNumber ==
  /\ []C23_NoTrailingSeparator
  /\ [][C23_SeparatorDropped]_vars
  /\ []C23_FlushedAtEnd
  /\ []C23_Example

\* "1,2." scanned with the flag on: the final '.' is dropped
C23_Witness ==
  /\ ScanReturned
  /\ enforce_comma_separator
  /\ input = <<"1", ",", "2", ".">>
  /\ output = << <<"1", ".", "2">> >>

-----------------------------------------------------------------------------
(* Properties of the evaluation order *)

\* C24: rule evaluation short-circuits at every level: in an And node or
\* an "all" list no child is evaluated after the first child that is false,
\* and in an Or node or an "any" list no child is evaluated after the first
\* child that is true.
C24_ShortCircuits ==
  \A i \in 1..Len(call_stack) :
    LET f == call_stack[i]
    IN  \A j \in 1..(Len(f.results) - 1) :
          /\ f.kind \in {"And", "all"} => f.results[j]
          /\ f.kind \in {"Or", "any"} => ~f.results[j]

\* the position (from 1) of the first digit of the run of digits and single
\* separators between digits that contains position p of the input
RECURSIVE C25_RunStart(_)
C25_RunStart(p) ==
  IF p > 1 /\ IsDigit(input[p - 1]) THEN C25_RunStart(p - 1)
  ELSE IF /\ p > 2
          /\ input[p - 1] \in {".", ",", OneDotLeader}
          /\ IsDigit(input[p - 2])
    THEN C25_RunStart(p - 2)
    ELSE p

\* the position of the last digit of the token that the iteration about to
\* run pushes
C25_LastDigit ==
  IF IsDigit(input[index + 1]) THEN index + 1
  ELSE IF IsDigit(prev_char) THEN index
  ELSE index - 1

\* a pushed token starts with '-' exactly when the first digit of its run
\* follows a '-'
C25_SignOfToken ==
  PushesToken =>
    LET first == C25_RunStart(C25_LastDigit)
        token == output'[Len(output')]
    IN  /\ Len(output') = Len(output) + 1
        /\ token # <<>>
        /\ (token[1] = "-") <=> (first > 1 /\ input[first - 1] = "-")
        /\ \A k \in 2..Len(token) : token[k] # "-"

\* the '-' of the output are the '-' of the input that a digit follows
RECURSIVE C25_Minuses(_)
C25_Minuses(tokens) ==
  IF tokens = <<>> THEN 0
  ELSE Count(tokens[1], "-") + C25_Minuses(Tail(tokens))

C25_OnlySigns ==
  ScanReturned =>
    C25_Minuses(output) =
      Cardinality({k \in 1..(Len(input) - 1) :
                     input[k] = "-" /\ IsDigit(input[k + 1])})

C25_Example ==
  (ScanReturned /\ input = InputMinus) => output = << <<"5">>, <<"-", "3">> >>

\* C25: an emitted token starts with '-' exactly when the first digit of its
\* digit run is immediately preceded by '-' in the input, whatever precedes
\* that '-'; a '-' that follows a digit terminates the current token and
\* becomes the sign of the next one ("5-3" yields "5" and "-3"); a '-' not
\* directly followed by a digit contributes nothing.
C25_SignHandling ==
  /\ [][C25_SignOfToken]_vars
  /\ []C25_OnlySigns
  /\ []C25_Example

\* "1-2" after a letter, scanned to the end
C25_Witness ==
  /\ ScanReturned
  /\ input = <<"x", "1", "-", "2">>
  /\ output = << <<"1">>, <<"-", "2">> >>

-----------------------------------------------------------------------------
(* Further properties of correct_numeric_string *)

\* the position (from 1) of the last '.' or ',' of s
C26_LastSeparator(s) ==
  Max({k \in 1..Len(s) : s[k] \in {".", ","}})

\* s holds both kinds of separator and the kind of its last separator
\* occurs once
C26_Applies(s) ==
  /\ Count(s, ".") >= 1
  /\ Count(s, ",") >= 1
  /\ Count(s, s[C26_LastSeparator(s)]) = 1

\* s with its last separator as the point and the other separators removed
C26_Expected(s) ==
  LET k == C26_LastSeparator(s)
  IN  Without(Without(SubSeq(s, 1, k - 1), "."), ",")
        \o <<".">> \o SubSeq(s, k + 1, Len(s))

\* C26: with the flag off, for a token that contains both '.' and ',' and
\* whose last separator is of a kind that occurs exactly once, that last
\* separator is taken as the decimal point and every other separator is
\* removed ("1,000,000.50" and "1.000.000,50" both give "1000000.50").
C26_LastSeparatorIsDecimal ==
  (mode = "corrected" /\ ~candidate_flag) =>
    /\ C26_Applies(candidate) => corrected = C26_Expected(candidate)
    /\ candidate \in
         { <<"1", ",", "0", "0", "0", ",", "0", "0", "0", ".", "5", "0">>,
           <<"1", ".", "0", "0", "0", ".", "0", "0", "0", ",", "5", "0">> }
         => corrected = <<"1", "0", "0", "0", "0", "0", "0", ".", "5", "0">>

\* "1.000.000,50" corrected with the flag off
C26_Witness ==
  /\ mode = "corrected"
  /\ ~candidate_flag
  /\ candidate = <<"1", ".", "0", "0", "0", ".", "0", "0", "0", ",", "5", "0">>
  /\ corrected = <<"1", "0", "0", "0", "0", "0", "0", ".", "5", "0">>

\* C27: with the flag off, a token with exactly one ',' (not at index 0)
\* and no '.' has the comma converted to the decimal point ("1,500" gives
\* "1.500"); a token with two or more ',' and no '.' has all commas
\* removed ("1,000,000" gives "1000000"); a missing '.' counts as a last
\* index of 0 when positions are compared, so a lone ',' at index 0 is not
\* above it and is removed.
C27_CommasWithoutPoint ==
  (mode = "corrected" /\ ~candidate_flag /\ Count(candidate, ".") = 0) =>
    /\ (Count(candidate, ",") = 1 /\ candidate[1] # ",") =>
          /\ Len(corrected) = Len(candidate)
          /\ \A k \in 1..Len(candidate) :
               corrected[k] = IF candidate[k] = "," THEN "." ELSE candidate[k]
    /\ Count(candidate, ",") >= 2 => corrected = Without(candidate, ",")
    /\ (Count(candidate, ",") = 1 /\ candidate[1] = ",") =>
          corrected = Tail(candidate)
    /\ candidate = <<"1", ",", "5", "0", "0">>
         => corrected = <<"1", ".", "5", "0", "0">>
    /\ candidate = <<"1", ",", "0", "0", "0", ",", "0", "0", "0">>
         => corrected = <<"1", "0", "0", "0", "0", "0", "0">>

\* "1,000,000" corrected with the flag off
C27_Witness ==
  /\ mode = "corrected"
  /\ ~candidate_flag
  /\ candidate = <<"1", ",", "0", "0", "0", ",", "0", "0", "0">>
  /\ corrected = <<"1", "0", "0", "0", "0", "0", "0">>

-----------------------------------------------------------------------------
(* Properties of the positive and_* batch methods *)

C28_AndHelpers ==
  {"and_true", "and_starts_with", "and_contains", "and_ends_with", "and_is"}

\* the variant of the predicates a positive and_* method builds
C28_Kind ==
  CASE mode = "and_true" ->
         (CASE arg_position = "Starts" -> "StartsWith"
            [] arg_position = "Contains" -> "Contains"
            [] arg_position = "Ends" -> "EndsWith"
            [] arg_position = "Whole" -> "Whole")
    [] mode = "and_starts_with" -> "StartsWith"
    [] mode = "and_contains" -> "Contains"
    [] mode = "and_ends_with" -> "EndsWith"
    [] mode = "and_is" -> "Whole"

\* C28: the node appended by a positive and_* batch method evaluates true
\* for a sample only if every pattern of the array matches at the given
\* position.
C28_AndNeedsEveryPattern ==
  mode \in C28_AndHelpers =>
    (match_bounds_rule_set(txt, string_bounds[Len(string_bounds)]) =>
       \A i \in 1..Len(arg_patterns) :
         match_bounds_rule(txt, Bounds(C28_Kind, arg_patterns[i], TRUE,
                                       arg_case_mode)))

-----------------------------------------------------------------------------
(* Conservation of digits *)

\* the decimal digits of the tokens, in order
RECURSIVE C29_DigitsOf(_)
C29_DigitsOf(tokens) ==
  IF tokens = <<>> THEN <<>>
  ELSE SelectSeq(tokens[1], IsDigit) \o C29_DigitsOf(Tail(tokens))

\* the digits emitted and buffered so far are the digits read so far
C29_ConservedSoFar ==
  mode = "scan" =>
    C29_DigitsOf(output) \o SelectSeq(num_string, IsDigit)
      = SelectSeq(SubSeq(input, 1, index), IsDigit)

C29_Conserved ==
  ScanReturned => C29_DigitsOf(output) = SelectSeq(input, IsDigit)

C29_RoundTrip ==
  mode = "strip_non_numeric" =>
    strip_non_digits(stripped) = strip_non_digits(input)

\* C29: for every input and either flag value, concatenating the decimal
\* digits of the emitted tokens in order gives exactly the sequence of
\* decimal digits of the input, so strip_non_digits(strip_non_numeric(s))
\* equals strip_non_digits(s).
C29_DigitsConserved ==
  C29_ConservedSoFar /\ C29_Conserved /\ C29_RoundTrip

\* two numbers with separators, stripped
C29_Witness ==
  /\ mode = "strip_non_numeric"
  /\ input = <<"1", ",", "2", "x", "2">>
  /\ stripped = <<"1", ".", "2", " ", "2">>

-----------------------------------------------------------------------------
(* Patterns with punctuation in AlphanumInsensitive mode *)

\* the rule is a predicate in AlphanumInsensitive mode whose pattern holds
\* a character that is neither a letter nor a digit
C30_Applies ==
  /\ item.kind \in Positions
  /\ item.case_mode = "AlphanumInsensitive"
  /\ \E k \in 1..Len(item.pattern) :
       item.pattern[k] \in {" ", "_", "-", "."}

\* C30: in AlphanumInsensitive mode a predicate whose pattern contains a
\* non-alphanumeric character (space, '_', '-', '.') has a raw test that is
\* false for every sample at every position, because only the sample is
\* stripped: a positive predicate never matches and a negative one always
\* matches.
C30_PunctuatedPatternNeverFound ==
  (mode = "matched" /\ C30_Applies) => is_matched = ~item.positive

\* a sample that holds the pattern "_a" literally
C30_Witness ==
  /\ mode = "matched"
  /\ txt = <<"_", "a", "b">>
  /\ item = Bounds("StartsWith", <<"_", "a">>, TRUE, "AlphanumInsensitive")
  /\ is_matched = FALSE

====
